---- MODULE Spec2Model ----
(***************************************************************************)
(* A model of the riscv-decoder crate: the bit-field views of a 32-bit     *)
(* instruction word (src/src/instructions.rs), the per-format decoders and *)
(* try_decode (src/src/decoder.rs).  A call of try_decode is followed      *)
(* through its stages: compressed check, opcode classification, the        *)
(* per-format decoder, return.                                             *)
(*                                                                         *)
(* Representation of machine words.  TLC's integers are 32-bit signed, so  *)
(* a 32-bit pattern (u32 InstructionSize or i32 SignedInstructionSize) is  *)
(* held as the integer in -2^31 .. 2^31-1 with that two's complement       *)
(* pattern.  An `as` cast between u32 and i32 keeps the pattern; what      *)
(* differs between the two types is `>>`, which is logical on u32 and      *)
(* arithmetic on i32.  A u32 below 2^31 is held as itself, so "the value   *)
(* is in 0..31" reads 0 <= v /\ v <= 31.                                   *)
(***************************************************************************)
EXTENDS Integers, Naturals, Sequences, FiniteSets, TLC

VARIABLES inst, stage, fmt, entered, result, text, returned, calls

vars == <<inst, stage, fmt, entered, result, text, returned, calls>>

TwoTo(n) == 2 ^ n

\* -2^31, the weight of bit 31
MinI32 == -(TwoTo(30)) - TwoTo(30)

\* bit i (0..31) of a pattern
Bit(w, i) == IF i = 31 THEN (IF w < 0 THEN 1 ELSE 0) ELSE (w \div TwoTo(i)) % 2

\* u32 `a | b` and `a & b`: bit i of the result from bit i of a and of b
RECURSIVE BitOrFrom(_, _, _)
BitOrFrom(a, b, i) ==
    IF i = 31 THEN (IF a < 0 \/ b < 0 THEN MinI32 ELSE 0)
    ELSE (IF Bit(a, i) = 1 \/ Bit(b, i) = 1 THEN TwoTo(i) ELSE 0) + BitOrFrom(a, b, i + 1)

\* a | b; the operands are bound as values, so each is evaluated once however
\* deep the expression that gives it
BitOr(a, b) == CHOOSE r \in {BitOrFrom(x, y, 0) : x \in {a}, y \in {b}} : TRUE

RECURSIVE BitAndFrom(_, _, _)
BitAndFrom(a, b, i) ==
    IF i = 31 THEN (IF a < 0 /\ b < 0 THEN MinI32 ELSE 0)
    ELSE (IF Bit(a, i) = 1 /\ Bit(b, i) = 1 THEN TwoTo(i) ELSE 0) + BitAndFrom(a, b, i + 1)

BitAnd(a, b) == BitAndFrom(a, b, 0)

\* `v << n` on u32 or i32 (0 <= n <= 31): the low 32-n bits of v move up by n,
\* the bits shifted out at the top are dropped
Shl(v, n) ==
    IF n = 0 THEN v
    ELSE LET m    == 32 - n                       \* bits of v that stay
             top  == Bit(v, m - 1)                \* becomes bit 31
             rest == v % TwoTo(m - 1)             \* bits m-2 .. 0
         IN  ((rest - top * TwoTo(m - 1)) * TwoTo(n - 1)) * 2

\* `v >> n` on u32 (0 <= n <= 31): logical, zeros come in at the top
ShrU32(v, n) ==
    IF n = 0 THEN v
    ELSE IF v >= 0 THEN (IF n = 31 THEN 0 ELSE v \div TwoTo(n))
    ELSE (((v \div 2) + TwoTo(30)) + TwoTo(30)) \div TwoTo(n - 1)

\* `v >> n` on i32: arithmetic, the sign bit is replicated
ShrI32(v, n) == v \div TwoTo(n)

(***************************************************************************)
(* bit_ops::bitops_u32, re-exported by lib.rs.                             *)
(***************************************************************************)
create_mask(n) == TwoTo(n) - 1

get_bits(value, width, offset) == BitAnd(ShrU32(value, offset), create_mask(width))

get_bit(value, bit) == get_bits(value, 1, bit)

is_set(value, bit) == get_bit(value, bit) = 1

(***************************************************************************)
(* The bitfield! accessors.  A field `msb, lsb` read at an unsigned type   *)
(* is the bit range; read at a signed type it is the bit range             *)
(* sign-extended from its top bit.  Every field of the crate is at most 20 *)
(* bits wide.                                                              *)
(***************************************************************************)
BitRangeU(w, msb, lsb) == (w \div TwoTo(lsb)) % TwoTo(msb - lsb + 1)

BitRangeI(w, msb, lsb) ==
    LET n == msb - lsb + 1
        u == BitRangeU(w, msb, lsb)
    IN  IF u >= TwoTo(n - 1) THEN u - TwoTo(n) ELSE u

(***************************************************************************)
(* Format views (instructions.rs).                                         *)
(***************************************************************************)
RType_opcode(w) == BitRangeU(w, 6, 0)
RType_rd(w)     == BitRangeU(w, 11, 7)
RType_funct3(w) == BitRangeU(w, 14, 12)
RType_rs1(w)    == BitRangeU(w, 19, 15)
RType_rs2(w)    == BitRangeU(w, 24, 20)
RType_funct7(w) == BitRangeU(w, 31, 25)

IType_opcode(w) == BitRangeU(w, 6, 0)

\* a register field one bit too wide
IType_rd_6bit(w) == BitRangeU(w, 12, 7)

IType_rd(w)     == BitRangeU(w, 11, 7)
IType_funct3(w) == BitRangeU(w, 14, 12)
IType_rs1(w)    == BitRangeU(w, 19, 15)

\* the immediate field declared unsigned: no sign extension
IType_imm1_unsigned(w) == BitRangeU(w, 31, 20)

IType_imm1(w)   == BitRangeI(w, 31, 20)

\* IType::imm and IType::uimm are called by decode_itype; the revision of
\* instructions.rs at hand declares only imm1.  imm is the 12-bit immediate
\* sign-extended to the word width, uimm the same 12 bits zero-extended.
IType_imm(w)  == IType_imm1(w)
IType_uimm(w) == BitRangeU(w, 31, 20)

SType_opcode(w) == BitRangeU(w, 6, 0)
SType_imm1(w)   == BitRangeU(w, 11, 7)
SType_funct3(w) == BitRangeU(w, 14, 12)
SType_rs1(w)    == BitRangeU(w, 19, 15)
SType_rs2(w)    == BitRangeU(w, 24, 20)

\* the upper immediate field declared unsigned: no sign extension
SType_imm2_unsigned(w) == BitRangeU(w, 31, 25)

SType_imm2(w)   == BitRangeI(w, 31, 25)

\* self.imm1() | (self.imm2() << 5) as InstructionSize
SType_imm(w) == BitOr(SType_imm1(w), Shl(SType_imm2(w), 5))

UType_opcode(w) == BitRangeU(w, 6, 0)
UType_rd(w)     == BitRangeU(w, 11, 7)
UType_imm1(w)   == BitRangeI(w, 31, 12)

\* UType::imm is called by decode_utype and not declared in the revision of
\* instructions.rs at hand: the 20-bit field put back in bit positions 31:12.
UType_imm(w) == Shl(UType_imm1(w), 12)

BType_opcode(w) == BitRangeU(w, 6, 0)
BType_imm1(w)   == BitRangeU(w, 11, 7)
BType_funct3(w) == BitRangeU(w, 14, 12)
BType_rs1(w)    == BitRangeU(w, 19, 15)
BType_rs2(w)    == BitRangeU(w, 24, 20)
BType_imm2(w)   == BitRangeI(w, 31, 25)

\* self.imm1() | (self.imm2() << 5) as InstructionSize
BType_imm(w) == BitOr(BType_imm1(w), Shl(BType_imm2(w), 5))

JType_opcode(w) == BitRangeU(w, 6, 0)
JType_rd(w)     == BitRangeU(w, 11, 7)

\* ((get_bit(self.0, 31) << 31) as i32 >> 11) as u32        imm[20] and the sign
JType_imm1(w) == ShrI32(Shl(get_bit(w, 31), 31), 11)

\* get_bits(self.0, 8, 12) << 12                            imm[19:12]
JType_imm2(w) == Shl(get_bits(w, 8, 12), 12)

\* get_bit(self.0 >> 9, 11) << 11                           imm[11]
\* imm[11] taken from word bit 21 instead of bit 20
JType_imm3_bit21(w) == Shl(get_bit(ShrU32(w, 10), 11), 11)

JType_imm3(w) == Shl(get_bit(ShrU32(w, 9), 11), 11)

\* get_bits(self.0 >> 20, 10, 1) << 1                       imm[10:1]
JType_imm4(w) == Shl(get_bits(ShrU32(w, 20), 10, 1), 1)

JType_imm(w) == BitOr(BitOr(BitOr(JType_imm1(w), JType_imm2(w)), JType_imm3(w)), JType_imm4(w))

\* compressed::is_compressed's mask; decoder.rs builds the same with create_mask(2)
COMPRESSED_MASK == create_mask(2)

OPCODE_MASK == create_mask(7)

(***************************************************************************)
(* The instruction catalog.  Opcode constants and the FUNCT3 / FUNCT7 of   *)
(* each instruction! line of instructions.rs that decoder.rs reads.        *)
(***************************************************************************)
LOAD_MATCH                == 3
FENCE_MATCH               == 15
ARITMETIC_IMMEDIATE_MATCH == 19
AUIPC_MATCH               == 23
LUI_MATCH                 == 55
STORE_MATCH               == 35
ARITMETIC_REGISTER_MATCH  == 51
BRANCH_MATCH              == 99
CSR_MATCH                 == 115
JALR_MATCH                == 103
JAL_MATCH                 == 111
ATOMIC_MATCH              == 47

\* Opcode constants decoder.rs names and the revision of instructions.rs at
\* hand does not declare.  FLOAD 7, FSTORE 39 and FLOATING_POINT 83 are the
\* opcode table's; the fused-multiply-add values are those of decoder.rs's
\* tests (0x0af5f7c3 FmaddD, 0x1207f047 FmsubD, 0x5A07F5CB FnmsubD).
FLOAD_MATCH          == 7
FSTORE_MATCH         == 39
FLOATING_POINT_MATCH == 83
FMADDD_MATCH         == 67
FMSUBD_MATCH         == 71
FNMSUBD_MATCH        == 75
FNMADDD_MATCH        == 79

\* name::FUNCT3 of the instruction! lines
FUNCT3 ==
    [lb |-> 0, lh |-> 1, lw |-> 2, lbu |-> 4, lhu |-> 5,
     addi |-> 0, slli |-> 1, slti |-> 2, sltiu |-> 3, xori |-> 4,
     srli |-> 5, srai |-> 5, ori |-> 6, andi |-> 7,
     sb |-> 0, sh |-> 1, sw |-> 2,
     add |-> 0, sub |-> 0, sll |-> 1, slt |-> 2, sltu |-> 3, xor |-> 4,
     srl |-> 5, sra |-> 5, or |-> 6, and |-> 7,
     beq |-> 0, bne |-> 1, blt |-> 4, bge |-> 5, bltu |-> 6, bgeu |-> 7,
     jalr |-> 0,
     ecall |-> 0, ebreak |-> 0, sret |-> 0, mret |-> 0,
     csrrw |-> 1, csrrs |-> 2, csrrc |-> 3, csrrwi |-> 5, csrrsi |-> 6, csrrci |-> 7,
     fence |-> 0, fence_i |-> 1,
     flw |-> 2, fld |-> 3, fsw |-> 2, fsd |-> 3,
     mul |-> 0, mulh |-> 1, mulsu |-> 2, mulu |-> 3,
     div |-> 4, divu |-> 5, rem |-> 6, remu |-> 7]

\* name::FUNCT7 of the instruction! lines decode_rtype reads
FUNCT7 ==
    [add |-> 0, sub |-> 32, sll |-> 0, slt |-> 0, sltu |-> 0, xor |-> 0,
     srl |-> 0, sra |-> 32, or |-> 0, and |-> 0,
     mul |-> 1, mulh |-> 1, mulsu |-> 1, mulu |-> 1,
     div |-> 1, divu |-> 1, rem |-> 1, remu |-> 1]

\* Catalog entries decoder.rs names and the revision of instructions.rs at
\* hand does not declare, with the values of the RISC-V encoding that the
\* design document and decoder.rs's tests give them.
\* name::IMM: the shift discriminants are compared with get_bits(imm, 6, 5),
\* the system constants with the whole immediate.
IMM ==
    [slli |-> 0, srli |-> 0, srai |-> 32,
     ecall |-> 0, ebreak |-> 1, sret |-> 258, mret |-> 770, sfencevma |-> 288]

\* FUNCT3 of the entries missing from instructions.rs
X_FUNCT3 ==
    [sfencevma |-> 0, amoswap_w |-> 2,
     fsgnj_s |-> 0, fsgnjn_s |-> 1, fsgnjx_s |-> 2, fmin_s |-> 0, fmax_s |-> 1,
     feq_s |-> 2, flt_s |-> 1, fclass_s |-> 1,
     fsgnj_d |-> 0, fsgnjn_d |-> 1, fsgnjx_d |-> 2, fmin_d |-> 0, fmax_d |-> 1,
     feq_d |-> 2, flt_d |-> 1, fle_d |-> 0, fclass_d |-> 1]

\* name::FUNCT5 (the top 5 bits of funct7)
FUNCT5 ==
    [amoswap_w |-> 1,
     fadd_s |-> 0, fsub_s |-> 1, fmul_s |-> 2, fdiv_s |-> 3, fsqrt_s |-> 11,
     fsgnj_s |-> 4, fsgnjn_s |-> 4, fsgnjx_s |-> 4, fmin_s |-> 5, fmax_s |-> 5,
     fcvt_w_s |-> 24, feq_s |-> 20, flt_s |-> 20, fle_s |-> 20, fclass_s |-> 28,
     fcvt_s_w |-> 26, fcvt_s_wu |-> 26, fmv_x_w |-> 28, fmv_w_x |-> 30,
     fcvt_s_d |-> 8,
     fcvt_d_w |-> 26, fadd_d |-> 0, fsub_d |-> 1, fmul_d |-> 2, fdiv_d |-> 3,
     fsgnj_d |-> 4, fsgnjn_d |-> 4, fsgnjx_d |-> 4, fmin_d |-> 5, fmax_d |-> 5,
     fcvt_d_s |-> 8, feq_d |-> 20, flt_d |-> 20, fle_d |-> 20, fclass_d |-> 28,
     fcvt_w_d |-> 24, fsqrt_d |-> 11]

\* name::RS2, the signed / unsigned selector of the FCVT groups
RS2 ==
    [fcvt_w_s |-> 0, fcvt_wu_s |-> 1, fcvt_d_w |-> 0, fcvt_d_wu |-> 1,
     fcvt_w_d |-> 0, fcvt_wu_d |-> 1]

(***************************************************************************)
(* Results.  An Ok(InstructionDecoded::V {..}) is a record with tag "V"    *)
(* and V's fields; an Err is the DecodeError wrapped by anyhow's context.  *)
(* decoder.rs builds every error from DecodeError::UnknownInstructionFormat *)
(* and a context text; the context of try_decode's own error is formatted  *)
(* with the word: arg is the set of the words formatted into the text.     *)
(***************************************************************************)
Err(context) ==
    [tag |-> "Err", error |-> "UnknownInstructionFormat", context |-> context, arg |-> {}]

ErrWith(context, word) ==
    [tag |-> "Err", error |-> "UnknownInstructionFormat", context |-> context, arg |-> {word}]

IsErr(r) == r.tag = "Err"

IsOk(r) == r.tag # "Err" /\ r.tag # "Panic"

\* the operand shapes of the variants
RdRs1Rs2(t, rd, rs1, rs2) == [tag |-> t, rd |-> rd, rs1 |-> rs1, rs2 |-> rs2]

RdRs1(t, rd, rs1) == [tag |-> t, rd |-> rd, rs1 |-> rs1]

RdRs1Rs2Rs3(t, rd, rs1, rs2, rs3) == [tag |-> t, rd |-> rd, rs1 |-> rs1, rs2 |-> rs2, rs3 |-> rs3]

RdRs1Imm(t, rd, rs1, imm) == [tag |-> t, rd |-> rd, rs1 |-> rs1, imm |-> imm]

Rs1Rs2Imm(t, rs1, rs2, imm) == [tag |-> t, rs1 |-> rs1, rs2 |-> rs2, imm |-> imm]

RdImm(t, rd, imm) == [tag |-> t, rd |-> rd, imm |-> imm]

(***************************************************************************)
(* A Rust match on a pair tries its arms in order and takes the first that *)
(* matches.  An arm is <<pattern of the first, pattern of the second, the  *)
(* variant>>; Wildcard is the pattern `_`.  FirstArm is the index of    *)
(* the arm taken, 0 when the match falls to its last `_ =>` arm.           *)
(***************************************************************************)
Wildcard == -1

ArmMatches(arm, a, b) == (arm[1] = Wildcard \/ arm[1] = a) /\ (arm[2] = Wildcard \/ arm[2] = b)

FirstArm(arms, a, b) ==
    LET S == {i \in DOMAIN arms : ArmMatches(arms[i], a, b)}
    IN  IF S = {} THEN 0 ELSE CHOOSE i \in S : \A j \in S : i <= j

(***************************************************************************)
(* decode_rtype                                                            *)
(***************************************************************************)
ArithmeticRegisterArms ==
    << <<FUNCT3.add,   FUNCT7.add,   "Add">>,
       <<FUNCT3.sub,   FUNCT7.sub,   "Sub">>,
       <<FUNCT3.sll,   FUNCT7.sll,   "Sll">>,
       <<FUNCT3.slt,   FUNCT7.slt,   "Slt">>,
       <<FUNCT3.sltu,  FUNCT7.sltu,  "Sltu">>,
       <<FUNCT3.xor,   FUNCT7.xor,   "Xor">>,
       <<FUNCT3.srl,   FUNCT7.srl,   "Srl">>,
       <<FUNCT3.sra,   FUNCT7.sra,   "Sra">>,
       <<FUNCT3.or,    FUNCT7.or,    "Or">>,
       <<FUNCT3.and,   FUNCT7.and,   "And">>,
       <<FUNCT3.mul,   FUNCT7.mul,   "Mul">>,
       <<FUNCT3.mulh,  FUNCT7.mulh,  "Mulh">>,
       <<FUNCT3.mulu,  FUNCT7.mulu,  "Mulu">>,
       <<FUNCT3.mulsu, FUNCT7.mulsu, "Mulsu">>,
       <<FUNCT3.div,   FUNCT7.div,   "Div">>,
       <<FUNCT3.divu,  FUNCT7.divu,  "Divu">>,
       <<FUNCT3.rem,   FUNCT7.rem,   "Rem">>,
       <<FUNCT3.remu,  FUNCT7.remu,  "Remu">> >>

\* funct7 reduced to its bit 5 before the match
decode_arithmetic_register_bit5(w) ==
    LET i == FirstArm(ArithmeticRegisterArms, RType_funct3(w), BitAnd(RType_funct7(w), 32))
    IN  IF i = 0 THEN Err("Unknown Arithmetic Register instruction (R-type)")
        ELSE RdRs1Rs2(ArithmeticRegisterArms[i][3], RType_rd(w), RType_rs1(w), RType_rs2(w))

decode_arithmetic_register(w) ==
    LET i == FirstArm(ArithmeticRegisterArms, RType_funct3(w), RType_funct7(w))
    IN  IF i = 0 THEN Err("Unknown Arithmetic Register instruction (R-type)")
        ELSE RdRs1Rs2(ArithmeticRegisterArms[i][3], RType_rd(w), RType_rs1(w), RType_rs2(w))

\* the ordering bits read the other way round
decode_atomic_aq_rl_swapped(w) ==
    LET funct5 == get_bits(RType_funct7(w), 5, 2)
        rl     == is_set(RType_funct7(w), 1)
        aq     == is_set(RType_funct7(w), 0)
    IN  IF RType_funct3(w) = X_FUNCT3.amoswap_w /\ funct5 = FUNCT5.amoswap_w
        THEN [tag |-> "AmoswapW", rd |-> RType_rd(w), rs1 |-> RType_rs1(w),
              rs2 |-> RType_rs2(w), rl |-> rl, aq |-> aq]
        ELSE Err("Unknown Atomic instruction")

decode_atomic(w) ==
    LET funct5 == get_bits(RType_funct7(w), 5, 2)
        rl     == is_set(RType_funct7(w), 0)
        aq     == is_set(RType_funct7(w), 1)
    IN  IF RType_funct3(w) = X_FUNCT3.amoswap_w /\ funct5 = FUNCT5.amoswap_w
        THEN [tag |-> "AmoswapW", rd |-> RType_rd(w), rs1 |-> RType_rs1(w),
              rs2 |-> RType_rs2(w), rl |-> rl, aq |-> aq]
        ELSE Err("Unknown Atomic instruction")

\* the arms of decode_single_precision: <<funct3, funct5, variant, operands>>
SinglePrecisionArms ==
    << <<Wildcard,          FUNCT5.fadd_s,    "FaddS",   3>>,
       <<Wildcard,          FUNCT5.fsub_s,    "FsubS",   3>>,
       <<Wildcard,          FUNCT5.fmul_s,    "FmulS",   3>>,
       <<Wildcard,          FUNCT5.fdiv_s,    "FdivS",   3>>,
       <<Wildcard,          FUNCT5.fsqrt_s,   "FsqrtS",  2>>,
       <<X_FUNCT3.fsgnj_s,  FUNCT5.fsgnj_s,   "FsgnjS",  3>>,
       <<X_FUNCT3.fsgnjn_s, FUNCT5.fsgnjn_s,  "FsgnjnS", 3>>,
       <<X_FUNCT3.fsgnjx_s, FUNCT5.fsgnjx_s,  "FsgnjxS", 3>>,
       <<X_FUNCT3.fmin_s,   FUNCT5.fmin_s,    "FminS",   3>>,
       <<X_FUNCT3.fmax_s,   FUNCT5.fmax_s,    "FmaxS",   3>>,
       <<Wildcard,          FUNCT5.fcvt_w_s,  "fcvt_w_s", 0>>,
       <<X_FUNCT3.feq_s,    FUNCT5.feq_s,     "FeqS",    3>>,
       <<X_FUNCT3.flt_s,    FUNCT5.flt_s,     "FltS",    3>>,
       <<Wildcard,          FUNCT5.fle_s,     "FleS",    3>>,
       <<X_FUNCT3.fclass_s, FUNCT5.fclass_s,  "FClassS", 2>>,
       <<Wildcard,          FUNCT5.fcvt_s_w,  "FcvtSW",  2>>,
       <<Wildcard,          FUNCT5.fcvt_s_wu, "FcvtSWU", 2>>,
       <<Wildcard,          FUNCT5.fmv_x_w,   "FmvXW",   2>>,
       <<Wildcard,          FUNCT5.fmv_w_x,   "FmvWX",   2>>,
       <<Wildcard,          FUNCT5.fcvt_s_d,  "FcvtSD",  2>> >>

\* the arms of decode_double_precision
DoublePrecisionArms ==
    << <<Wildcard,          FUNCT5.fcvt_d_w,  "fcvt_d_w", 0>>,
       <<Wildcard,          FUNCT5.fadd_d,    "FaddD",   3>>,
       <<Wildcard,          FUNCT5.fsub_d,    "FsubD",   3>>,
       <<Wildcard,          FUNCT5.fmul_d,    "FmulD",   3>>,
       <<Wildcard,          FUNCT5.fdiv_d,    "FdivD",   3>>,
       <<X_FUNCT3.fsgnj_d,  FUNCT5.fsgnj_d,   "FsgnjD",  3>>,
       <<X_FUNCT3.fsgnjn_d, FUNCT5.fsgnjn_d,  "FsgnjnD", 3>>,
       <<X_FUNCT3.fsgnjx_d, FUNCT5.fsgnjx_d,  "FsgnjxD", 3>>,
       <<X_FUNCT3.fmin_d,   FUNCT5.fmin_d,    "FminD",   3>>,
       <<X_FUNCT3.fmax_d,   FUNCT5.fmax_d,    "FmaxD",   3>>,
       <<Wildcard,          FUNCT5.fcvt_d_s,  "FcvtDS",  2>>,
       <<X_FUNCT3.feq_d,    FUNCT5.feq_d,     "FeqD",    3>>,
       <<X_FUNCT3.flt_d,    FUNCT5.flt_d,     "FltD",    3>>,
       <<X_FUNCT3.fle_d,    FUNCT5.fle_d,     "FleD",    3>>,
       <<X_FUNCT3.fclass_d, FUNCT5.fclass_d,  "FClassD", 2>>,
       <<Wildcard,          FUNCT5.fcvt_w_d,  "fcvt_w_d", 0>>,
       <<Wildcard,          FUNCT5.fsqrt_d,   "FsqrtD",  2>> >>

\* the inner `match inst.rs2()` of the three FCVT arms
decode_fcvt_by_rs2(w, group) ==
    LET rs2 == RType_rs2(w)
        rd  == RType_rd(w)
        rs1 == RType_rs1(w)
    IN  IF group = "fcvt_w_s" THEN
            IF rs2 = RS2.fcvt_w_s THEN RdRs1("FcvtWS", rd, rs1)
            ELSE IF rs2 = RS2.fcvt_wu_s THEN RdRs1("FcvtWUS", rd, rs1)
            ELSE Err("Unknown Floating Point instruction")
        ELSE IF group = "fcvt_d_w" THEN
            IF rs2 = RS2.fcvt_d_w THEN RdRs1("FcvtDW", rd, rs1)
            ELSE IF rs2 = RS2.fcvt_d_wu THEN RdRs1("FcvtDWU", rd, rs1)
            ELSE Err("Unknown Fcvt D W instruction")
        ELSE
            IF rs2 = RS2.fcvt_w_d THEN RdRs1("FcvtWD", rd, rs1)
            ELSE IF rs2 = RS2.fcvt_wu_d THEN RdRs1("FcvtWUD", rd, rs1)
            ELSE Err("Unknown Fcvt W D instruction")

FloatArmResult(w, arm) ==
    IF arm[4] = 3 THEN RdRs1Rs2(arm[3], RType_rd(w), RType_rs1(w), RType_rs2(w))
    ELSE IF arm[4] = 2 THEN RdRs1(arm[3], RType_rd(w), RType_rs1(w))
    ELSE decode_fcvt_by_rs2(w, arm[3])

decode_single_precision(w, funct3, funct5) ==
    LET i == FirstArm(SinglePrecisionArms, funct3, funct5)
    IN  IF i = 0 THEN Err("Unknown Single Precision Floating Point instruction")
        ELSE FloatArmResult(w, SinglePrecisionArms[i])

decode_double_precision(w, funct3, funct5) ==
    LET i == FirstArm(DoublePrecisionArms, funct3, funct5)
    IN  IF i = 0 THEN Err("Unknown Double Precision Floating Point instruction")
        ELSE FloatArmResult(w, DoublePrecisionArms[i])

decode_quad_precision(w, funct3, funct5) ==
    Err("Quad Precision Floating Point instructions are not supported yet")

SINGLE_PRECISION_MATCH == 0
DOUBLE_PRECISION_MATCH == 1
QUAD_PRECISION_MATCH   == 3

\* fmt read from one bit of funct7 only
decode_floating_point_fmt_1bit(w) ==
    LET funct5 == get_bits(RType_funct7(w), 5, 2)
        fmt_   == get_bits(RType_funct7(w), 1, 0)
    IN  IF fmt_ = SINGLE_PRECISION_MATCH THEN decode_single_precision(w, RType_funct3(w), funct5)
        ELSE IF fmt_ = DOUBLE_PRECISION_MATCH THEN decode_double_precision(w, RType_funct3(w), funct5)
        ELSE IF fmt_ = QUAD_PRECISION_MATCH THEN decode_quad_precision(w, RType_funct3(w), funct5)
        ELSE Err("Unknown Floating Point instruction")

decode_floating_point(w) ==
    LET funct5 == get_bits(RType_funct7(w), 5, 2)
        fmt_   == get_bits(RType_funct7(w), 2, 0)
    IN  IF fmt_ = SINGLE_PRECISION_MATCH THEN decode_single_precision(w, RType_funct3(w), funct5)
        ELSE IF fmt_ = DOUBLE_PRECISION_MATCH THEN decode_double_precision(w, RType_funct3(w), funct5)
        ELSE IF fmt_ = QUAD_PRECISION_MATCH THEN decode_quad_precision(w, RType_funct3(w), funct5)
        ELSE Err("Unknown Floating Point instruction")

\* rs3 read from the low 5 bits of funct7
decode_fused_rs3_low(w, t) ==
    LET rs3 == get_bits(RType_funct7(w), 5, 0)
    IN  RdRs1Rs2Rs3(t, RType_rd(w), RType_rs1(w), RType_rs2(w), rs3)

decode_fused(w, t) ==
    LET rs3 == get_bits(RType_funct7(w), 5, 2)
    IN  RdRs1Rs2Rs3(t, RType_rd(w), RType_rs1(w), RType_rs2(w), rs3)

decode_rtype(w) ==
    LET opcode == RType_opcode(w)
    IN  IF opcode = ARITMETIC_REGISTER_MATCH THEN decode_arithmetic_register(w)
        ELSE IF opcode = ATOMIC_MATCH THEN decode_atomic(w)
        ELSE IF opcode = FLOATING_POINT_MATCH THEN decode_floating_point(w)
        ELSE IF opcode = FMADDD_MATCH THEN decode_fused(w, "FmaddD")
        ELSE IF opcode = FMSUBD_MATCH THEN decode_fused(w, "FmsubD")
        ELSE IF opcode = FNMADDD_MATCH THEN decode_fused(w, "FnmaddD")
        ELSE IF opcode = FNMSUBD_MATCH THEN decode_fused(w, "FnmsubD")
        ELSE Err("Unknown R-Type instruction")

(***************************************************************************)
(* decode_itype                                                            *)
(***************************************************************************)
\* match (iinst.funct3(), f5): <<funct3, f5, variant, TRUE when the operand is
\* the shift amount `imm` and not iinst.imm()>>
ArithmeticImmediateArms ==
    << <<FUNCT3.addi,  Wildcard, "Addi",  FALSE>>,
       <<FUNCT3.slti,  Wildcard, "Slti",  FALSE>>,
       <<FUNCT3.sltiu, Wildcard, "Sltiu", FALSE>>,
       <<FUNCT3.xori,  Wildcard, "Xori",  FALSE>>,
       <<FUNCT3.ori,   Wildcard, "Ori",   FALSE>>,
       <<FUNCT3.andi,  Wildcard, "Andi",  FALSE>>,
       <<FUNCT3.slli,  IMM.slli, "Slli",  TRUE>>,
       <<FUNCT3.srli,  IMM.srli, "Srli",  TRUE>>,
       <<FUNCT3.srai,  IMM.srai, "Srai",  TRUE>> >>

decode_arithmetic_immediate(w) ==
    LET imm == get_bits(IType_imm(w), 5, 0)
        f5  == get_bits(IType_imm(w), 6, 5)
        i   == FirstArm(ArithmeticImmediateArms, IType_funct3(w), f5)
    IN  IF i = 0 THEN Err("Unknown Arithmetic immediate I-Type instruction")
        ELSE RdRs1Imm(ArithmeticImmediateArms[i][3], IType_rd(w), IType_rs1(w),
                      IF ArithmeticImmediateArms[i][4] THEN imm ELSE IType_imm(w))

decode_load(w) ==
    LET funct3 == IType_funct3(w)
        t == IF funct3 = FUNCT3.lb THEN "Lb"
             ELSE IF funct3 = FUNCT3.lh THEN "Lh"
             ELSE IF funct3 = FUNCT3.lw THEN "Lw"
             ELSE IF funct3 = FUNCT3.lbu THEN "Lbu"
             ELSE IF funct3 = FUNCT3.lhu THEN "Lhu"
             ELSE "none"
    IN  IF t = "none" THEN Err("Unknown Load I-Type instruction")
        ELSE RdRs1Imm(t, IType_rd(w), IType_rs1(w), IType_imm(w))

decode_fload(w) ==
    LET funct3 == IType_funct3(w)
    IN  IF funct3 = FUNCT3.flw THEN RdRs1Imm("Flw", IType_rd(w), IType_rs1(w), IType_imm(w))
        ELSE IF funct3 = FUNCT3.fld THEN RdRs1Imm("Fld", IType_rd(w), IType_rs1(w), IType_imm(w))
        ELSE Err("Unknown Float Load I-Type instruction")

\* succ read from the top 4 bits of the immediate
decode_fence_succ_top(w) ==
    LET pred == get_bits(IType_imm(w), 4, 0)
        succ == get_bits(IType_imm(w), 4, 8)
        funct3 == IType_funct3(w)
    IN  IF funct3 = FUNCT3.fence THEN [tag |-> "Fence", pred |-> pred, succ |-> succ]
        ELSE IF funct3 = FUNCT3.fence_i THEN [tag |-> "FenceI", pred |-> pred, succ |-> succ]
        ELSE Err("Unknown Fence I-Type instruction")

decode_fence(w) ==
    LET pred == get_bits(IType_imm(w), 4, 0)
        succ == get_bits(IType_imm(w), 4, 4)
        funct3 == IType_funct3(w)
    IN  IF funct3 = FUNCT3.fence THEN [tag |-> "Fence", pred |-> pred, succ |-> succ]
        ELSE IF funct3 = FUNCT3.fence_i THEN [tag |-> "FenceI", pred |-> pred, succ |-> succ]
        ELSE Err("Unknown Fence I-Type instruction")

\* the system arms with sret matched on funct3 alone
CsrArms_sret_any_imm ==
    << <<FUNCT3.csrrw,       Wildcard,      "CsrRw",     TRUE>>,
       <<FUNCT3.csrrs,       Wildcard,      "CsrRs",     TRUE>>,
       <<FUNCT3.csrrc,       Wildcard,      "CsrRc",     TRUE>>,
       <<FUNCT3.csrrwi,      Wildcard,      "CsrRwi",    TRUE>>,
       <<FUNCT3.csrrsi,      Wildcard,      "CsrRsi",    TRUE>>,
       <<FUNCT3.csrrci,      Wildcard,      "CsrRci",    TRUE>>,
       <<X_FUNCT3.sfencevma, IMM.sfencevma, "SFenceVma", FALSE>>,
       <<FUNCT3.ebreak,      IMM.ebreak,    "EBreak",    FALSE>>,
       <<FUNCT3.ecall,       IMM.ecall,     "ECall",     FALSE>>,
       <<FUNCT3.mret,        IMM.mret,      "MRet",      FALSE>>,
       <<FUNCT3.sret,        Wildcard,      "SRet",      FALSE>> >>

\* match (iinst.funct3(), iinst.imm()): <<funct3, imm, variant, TRUE when the
\* variant carries rd, rs1 and iinst.uimm()>>
CsrArms ==
    << <<FUNCT3.csrrw,       Wildcard,      "CsrRw",     TRUE>>,
       <<FUNCT3.csrrs,       Wildcard,      "CsrRs",     TRUE>>,
       <<FUNCT3.csrrc,       Wildcard,      "CsrRc",     TRUE>>,
       <<FUNCT3.csrrwi,      Wildcard,      "CsrRwi",    TRUE>>,
       <<FUNCT3.csrrsi,      Wildcard,      "CsrRsi",    TRUE>>,
       <<FUNCT3.csrrci,      Wildcard,      "CsrRci",    TRUE>>,
       <<X_FUNCT3.sfencevma, IMM.sfencevma, "SFenceVma", FALSE>>,
       <<FUNCT3.ebreak,      IMM.ebreak,    "EBreak",    FALSE>>,
       <<FUNCT3.ecall,       IMM.ecall,     "ECall",     FALSE>>,
       <<FUNCT3.mret,        IMM.mret,      "MRet",      FALSE>>,
       <<FUNCT3.sret,        IMM.sret,      "SRet",      FALSE>> >>

decode_csr(w) ==
    LET i == FirstArm(CsrArms, IType_funct3(w), IType_imm(w))
    IN  IF i = 0 THEN Err("Unknown Csr I-Type instruction")
        ELSE IF CsrArms[i][4]
             THEN RdRs1Imm(CsrArms[i][3], IType_rd(w), IType_rs1(w), IType_uimm(w))
             ELSE [tag |-> CsrArms[i][3]]

decode_itype(w) ==
    LET opcode == IType_opcode(w)
    IN  IF opcode = ARITMETIC_IMMEDIATE_MATCH THEN decode_arithmetic_immediate(w)
        ELSE IF opcode = LOAD_MATCH THEN decode_load(w)
        ELSE IF opcode = FLOAD_MATCH THEN decode_fload(w)
        ELSE IF opcode = JALR_MATCH /\ IType_funct3(w) = FUNCT3.jalr
             THEN RdRs1Imm("Jalr", IType_rd(w), IType_rs1(w), IType_imm(w))
        ELSE IF opcode = FENCE_MATCH THEN decode_fence(w)
        ELSE IF opcode = CSR_MATCH THEN decode_csr(w)
        ELSE Err("Unknown I-Type instruction")

(***************************************************************************)
(* decode_stype, decode_utype, decode_btype, decode_jtype                  *)
(***************************************************************************)
decode_store(w) ==
    LET funct3 == SType_funct3(w)
        t == IF funct3 = FUNCT3.sb THEN "Sb"
             ELSE IF funct3 = FUNCT3.sh THEN "Sh"
             ELSE IF funct3 = FUNCT3.sw THEN "Sw"
             ELSE "none"
    IN  IF t = "none" THEN Err("Unknown S-Type instruction")
        ELSE Rs1Rs2Imm(t, SType_rs1(w), SType_rs2(w), SType_imm(w))

decode_fstore(w) ==
    LET funct3 == SType_funct3(w)
        t == IF funct3 = FUNCT3.fsw THEN "Fsw"
             ELSE IF funct3 = FUNCT3.fsd THEN "Fsd"
             ELSE "none"
    IN  IF t = "none" THEN Err("Unknown S-Type instruction")
        ELSE Rs1Rs2Imm(t, SType_rs1(w), SType_rs2(w), SType_imm(w))

\* both store opcodes decoded by the STORE_MATCH arm
decode_stype_store_only(w) ==
    LET opcode == SType_opcode(w)
    IN  IF opcode \in {STORE_MATCH, FSTORE_MATCH} THEN decode_store(w)
        ELSE Err("Unknown S-Type instruction")

decode_stype(w) ==
    LET opcode == SType_opcode(w)
    IN  IF opcode = STORE_MATCH THEN decode_store(w)
        ELSE IF opcode = FSTORE_MATCH THEN decode_fstore(w)
        ELSE Err("Unknown S-Type instruction")

\* both opcodes decoded by the LUI arm
decode_utype_lui_only(w) ==
    LET opcode == UType_opcode(w)
    IN  IF opcode \in {LUI_MATCH, AUIPC_MATCH} THEN RdImm("Lui", UType_rd(w), UType_imm(w))
        ELSE Err("Unknown U-Type instruction")

decode_utype(w) ==
    LET opcode == UType_opcode(w)
    IN  IF opcode = LUI_MATCH THEN RdImm("Lui", UType_rd(w), UType_imm(w))
        ELSE IF opcode = AUIPC_MATCH THEN RdImm("AuiPc", UType_rd(w), UType_imm(w))
        ELSE Err("Unknown U-Type instruction")

\* decode_btype matches on funct3 alone
decode_btype(w) ==
    LET funct3 == BType_funct3(w)
        t == IF funct3 = FUNCT3.beq THEN "Beq"
             ELSE IF funct3 = FUNCT3.bne THEN "Bne"
             ELSE IF funct3 = FUNCT3.blt THEN "Blt"
             ELSE IF funct3 = FUNCT3.bge THEN "Bge"
             ELSE IF funct3 = FUNCT3.bltu THEN "Bltu"
             ELSE IF funct3 = FUNCT3.bgeu THEN "Bgeu"
             ELSE "none"
    IN  IF t = "none" THEN Err("Unknown B-Type instruction")
        ELSE Rs1Rs2Imm(t, BType_rs1(w), BType_rs2(w), BType_imm(w))

decode_jtype(w) ==
    IF JType_opcode(w) = JAL_MATCH THEN RdImm("Jal", JType_rd(w), JType_imm(w))
    ELSE Err("Unknown J-Type instruction")

(***************************************************************************)
(* try_decode                                                              *)
(***************************************************************************)
try_decode_compressed(w) == Err("Compressed instructions are not supported yet")

\* match inst & COMPRESSED_MASK { 0 | 1 | 2 => .. }
\* a test that lets the low bits 10 through
is_compressed_00_01(w) == BitAnd(w, COMPRESSED_MASK) \in {0, 1}

is_compressed(w) == BitAnd(w, COMPRESSED_MASK) \in {0, 1, 2}

NoFormat == "none"

\* a format match whose JAL arm is merged into the IType arm
InstructionFormat_jal_itype(opcode) ==
    IF opcode \in {FNMSUBD_MATCH, FNMADDD_MATCH, FMSUBD_MATCH, FMADDD_MATCH,
                   FLOATING_POINT_MATCH, ATOMIC_MATCH, ARITMETIC_REGISTER_MATCH} THEN "RType"
    ELSE IF opcode \in {FSTORE_MATCH, STORE_MATCH} THEN "SType"
    ELSE IF opcode = BRANCH_MATCH THEN "BType"
    ELSE IF opcode \in {FLOAD_MATCH, ARITMETIC_IMMEDIATE_MATCH, FENCE_MATCH,
                        LOAD_MATCH, CSR_MATCH, JALR_MATCH, JAL_MATCH} THEN "IType"
    ELSE IF opcode \in {LUI_MATCH, AUIPC_MATCH} THEN "UType"
    ELSE "none"

\* let fmt = match inst & OPCODE_MASK { .. }
InstructionFormat(opcode) ==
    IF opcode \in {FNMSUBD_MATCH, FNMADDD_MATCH, FMSUBD_MATCH, FMADDD_MATCH,
                   FLOATING_POINT_MATCH, ATOMIC_MATCH, ARITMETIC_REGISTER_MATCH} THEN "RType"
    ELSE IF opcode \in {FSTORE_MATCH, STORE_MATCH} THEN "SType"
    ELSE IF opcode = BRANCH_MATCH THEN "BType"
    ELSE IF opcode = JAL_MATCH THEN "JType"
    ELSE IF opcode \in {FLOAD_MATCH, ARITMETIC_IMMEDIATE_MATCH, FENCE_MATCH,
                        LOAD_MATCH, CSR_MATCH, JALR_MATCH} THEN "IType"
    ELSE IF opcode \in {LUI_MATCH, AUIPC_MATCH} THEN "UType"
    ELSE NoFormat

\* a format match whose `_ =>` arm panics instead of returning
unknown_format_panic(w) == [tag |-> "Panic", arg |-> {w}]

\* the `_ =>` arm of the format match
unknown_format(w) == ErrWith("Failed to decode inst", w)

\* let inst = match fmt { .. }
decode_format(f, w) ==
    IF f = "RType" THEN decode_rtype(w)
    ELSE IF f = "IType" THEN decode_itype(w)
    ELSE IF f = "SType" THEN decode_stype(w)
    ELSE IF f = "UType" THEN decode_utype(w)
    ELSE IF f = "BType" THEN decode_btype(w)
    ELSE decode_jtype(w)

\* try_decode as a function of the word, for use in the stages below
try_decode(w) ==
    IF is_compressed(w) THEN try_decode_compressed(w)
    ELSE LET f == InstructionFormat(BitAnd(w, OPCODE_MASK))
         IN  IF f = NoFormat THEN unknown_format(w) ELSE decode_format(f, w)

(***************************************************************************)
(* Display for InstructionDecoded (decoded_inst.rs).  The text written is   *)
(* held as the format string of the write! and the sequence of its          *)
(* arguments as they are formatted: a string argument is [name |-> s], a    *)
(* number is [chars |-> the characters written].  REG_NAMES[i] with i       *)
(* outside the table panics.                                                *)
(***************************************************************************)
REG_NAMES ==
    <<"zero", "ra", "sp", "gp", "tp", "t0", "t1", "t2", "s0", "s1", "a0",
      "a1", "a2", "a3", "a4", "a5", "a6", "a7", "s2", "s3", "s4", "s5",
      "s6", "s7", "s8", "s9", "s10", "s11", "t3", "t4", "t5", "t6">>

\* the CSR-address -> name table included from the build's codegen.rs
CSRS == (3860 :> "mhartid")

DigitChars ==
    <<"0", "1", "2", "3", "4", "5", "6", "7", "8", "9", "A", "B", "C", "D", "E", "F">>

RECURSIVE Digits(_, _)
\* the characters of n >= 0 written in the base
Digits(n, base) ==
    IF n < base THEN <<DigitChars[n + 1]>>
    ELSE Digits(n \div base, base) \o <<DigitChars[(n % base) + 1]>>

RECURSIVE NegDigits(_)
\* the characters of -n for n < 0, without negating n
NegDigits(n) ==
    LET d == (10 - (n % 10)) % 10
        q == (n + d) \div 10
    IN  IF q = 0 THEN <<DigitChars[d + 1]>> ELSE NegDigits(q) \o <<DigitChars[d + 1]>>

\* `{}` of an i32
DisplayI32(n) == IF n >= 0 THEN Digits(n, 10) ELSE <<"-">> \o NegDigits(n)

\* `{}` of a u32; a pattern with bit 31 set is the value 2 * m + b, m below 2^31
DisplayU32(v) ==
    IF v >= 0 THEN Digits(v, 10)
    ELSE LET m == ((v \div 2) + TwoTo(30)) + TwoTo(30)
             r == 2 * (m % 5) + (v % 2)
         IN  Digits(m \div 5, 10) \o <<DigitChars[r + 1]>>

RECURSIVE Nibbles(_, _)
\* the hexadecimal digits of the u32 from nibble k down, leading zeros dropped
Nibbles(v, k) ==
    LET d == get_bits(v, 4, 4 * k)
    IN  IF k = 0 THEN <<DigitChars[d + 1]>>
        ELSE IF d = 0 /\ ShrU32(v, 4 * k) = 0 THEN Nibbles(v, k - 1)
        ELSE <<DigitChars[d + 1]>> \o [i \in 1 .. k |-> DigitChars[get_bits(v, 4, 4 * (k - i)) + 1]]

\* `{:#X}` of a u32
UpperHexU32(v) == <<"0", "x">> \o Nibbles(v, 7)

\* REG_NAMES[*r as usize]
RegArg(i) ==
    IF i \in 0 .. 31 THEN [name |-> REG_NAMES[i + 1]]
    ELSE [panic |-> "index out of bounds"]

\* write!(f, template, args..): the text, or the panic of an argument
Write(template, args) ==
    IF \E i \in 1 .. Len(args) : "panic" \in DOMAIN args[i]
    THEN [tag |-> "Panic"]
    ELSE [tag |-> "Text", template |-> template, args |-> args]

\* the arms of Display::fmt that are one write!: the format string and the
\* arguments in order
DisplayArms ==
    [ Lb |-> <<"lb {}, {}({})", <<"rd", "imm as i32", "rs1">> >>,
      Lh |-> <<"lh {}, {}({})", <<"rd", "imm as i32", "rs1">> >>,
      Lw |-> <<"lw {}, {}({})", <<"rd", "imm as i32", "rs1">> >>,
      Lbu |-> <<"lbu {}, {}({})", <<"rd", "imm as i32", "rs1">> >>,
      Lhu |-> <<"lhu {}, {}({})", <<"rd", "imm as i32", "rs1">> >>,
      Lwu |-> <<"lwu {}, {}({})", <<"rd", "imm as i32", "rs1">> >>,
      Addi |-> <<"addi {}, {}, {}", <<"rd", "rs1", "imm as i32">> >>,
      Slli |-> <<"slli {}, {}, {}", <<"rd", "rs1", "imm as i32">> >>,
      Slti |-> <<"slti {}, {}, {}", <<"rd", "rs1", "imm as i32">> >>,
      Sltiu |-> <<"sltiu {}, {}, {}", <<"rd", "rs1", "imm as i32">> >>,
      Xori |-> <<"xori {}, {}, {}", <<"rd", "rs1", "imm as i32">> >>,
      Srli |-> <<"srli {}, {}, {}", <<"rd", "rs1", "imm as i32">> >>,
      Srai |-> <<"srai {}, {}, {}", <<"rd", "rs1", "imm as i32">> >>,
      Ori |-> <<"ori {}, {}, {}", <<"rd", "rs1", "imm as i32">> >>,
      Andi |-> <<"andi {}, {}, {}", <<"rd", "rs1", "imm as i32">> >>,
      AuiPc |-> <<"auipc {}, {}", <<"rd", "imm as i32">> >>,
      Sb |-> <<"sb {}, {}({})", <<"rs2", "imm as i32", "rs1">> >>,
      Sh |-> <<"sh {}, {}({})", <<"rs2", "imm as i32", "rs1">> >>,
      Sw |-> <<"sw {}, {}({})", <<"rs2", "imm as i32", "rs1">> >>,
      Add |-> <<"add {}, {}, {}", <<"rd", "rs1", "rs2">> >>,
      Sub |-> <<"sub {}, {}, {}", <<"rd", "rs1", "rs2">> >>,
      Sll |-> <<"sll {}, {}, {}", <<"rd", "rs1", "rs2">> >>,
      Slt |-> <<"slt {}, {}, {}", <<"rd", "rs1", "rs2">> >>,
      Sltu |-> <<"sltu {}, {}, {}", <<"rd", "rs1", "rs2">> >>,
      Xor |-> <<"xor {}, {}, {}", <<"rd", "rs1", "rs2">> >>,
      Srl |-> <<"srl {}, {}, {}", <<"rd", "rs1", "rs2">> >>,
      Sra |-> <<"sra {}, {}, {}", <<"rd", "rs1", "rs2">> >>,
      Or |-> <<"or {}, {}, {}", <<"rd", "rs1", "rs2">> >>,
      And |-> <<"and {}, {}, {}", <<"rd", "rs1", "rs2">> >>,
      Lui |-> <<"lui {}, {:#X}", <<"rd", "imm:#X">> >>,
      Beq |-> <<"beq {}, {}, {}", <<"rs1", "rs2", "imm as i32">> >>,
      Bne |-> <<"bne {}, {}, {}", <<"rs1", "rs2", "imm as i32">> >>,
      Blt |-> <<"blt {}, {}, {}", <<"rs1", "rs2", "imm as i32">> >>,
      Bge |-> <<"bge {}, {}, {}", <<"rs1", "rs2", "imm as i32">> >>,
      Bltu |-> <<"bltu {}, {}, {}", <<"rs1", "rs2", "imm as i32">> >>,
      Bgeu |-> <<"bgeu {}, {}, {}", <<"rs1", "rs2", "imm as i32">> >>,
      Jal |-> <<"jal {}({})", <<"imm as i32", "rd">> >>,
      ECall |-> <<"ecall", <<>> >>,
      EBreak |-> <<"ebreak", <<>> >>,
      SRet |-> <<"sret", <<>> >>,
      MRet |-> <<"mret", <<>> >>,
      SFenceVma |-> <<"sfence.vma", <<>> >>,
      Fence |-> <<"fence {}, {}", <<"pred as i32", "succ as i32">> >>,
      FenceI |-> <<"fence.i {}, {}", <<"pred as i32", "succ as i32">> >>,
      Flw |-> <<"flw {}, {}({})", <<"rd", "imm as i32", "rs1">> >>,
      Fsw |-> <<"fsw {}, {}({})", <<"rs2", "imm as i32", "rs1">> >>,
      Fld |-> <<"fld {}, {}({})", <<"rd", "imm as i32", "rs1">> >>,
      Fsd |-> <<"fsd {}, {}({})", <<"rs2", "imm as i32", "rs1">> >>,
      FmaddS |-> <<"fmadd.s {}, {}, {}, {}", <<"rd", "rs1", "rs2", "rs3">> >>,
      FmsubS |-> <<"fmsub.s {}, {}, {}, {}", <<"rd", "rs1", "rs2", "rs3">> >>,
      FnmaddS |-> <<"fnmadd.s {}, {}, {}, {}", <<"rd", "rs1", "rs2", "rs3">> >>,
      FnmsubS |-> <<"fnmsub.s {}, {}, {}, {}", <<"rd", "rs1", "rs2", "rs3">> >>,
      FaddS |-> <<"fadd.s {}, {}, {}", <<"rd", "rs1", "rs2">> >>,
      FsubS |-> <<"fsub.s {}, {}, {}", <<"rd", "rs1", "rs2">> >>,
      FmulS |-> <<"fmul.s {}, {}, {}", <<"rd", "rs1", "rs2">> >>,
      FdivS |-> <<"fdiv.s {}, {}, {}", <<"rd", "rs1", "rs2">> >>,
      FsqrtS |-> <<"fsqrt.s {}, {}", <<"rd", "rs1">> >>,
      FsgnjS |-> <<"fsgnj.s {}, {}, {}", <<"rd", "rs1", "rs2">> >>,
      FsgnjnS |-> <<"fsgnjn.s {}, {}, {}", <<"rd", "rs1", "rs2">> >>,
      FsgnjxS |-> <<"fsgnjx.s {}, {}, {}", <<"rd", "rs1", "rs2">> >>,
      FminS |-> <<"fmin.s {}, {}, {}", <<"rd", "rs1", "rs2">> >>,
      FmaxS |-> <<"fmax.s {}, {}, {}", <<"rd", "rs1", "rs2">> >>,
      FcvtSW |-> <<"fcvt.s.w {}, {}", <<"rd", "rs1">> >>,
      FcvtSWU |-> <<"fcvt.s.wu {}, {}", <<"rd", "rs1">> >>,
      FcvtWS |-> <<"fcvt.w.s {}, {}", <<"rd", "rs1">> >>,
      FcvtWUS |-> <<"fcvt.wu.s {}, {}", <<"rd", "rs1">> >>,
      FmvXW |-> <<"fmv.x.w {}, {}", <<"rd", "rs1">> >>,
      FmvWX |-> <<"fmv.w.x {}, {}", <<"rd", "rs1">> >>,
      FeqS |-> <<"feq.s {}, {}, {}", <<"rd", "rs1", "rs2">> >>,
      FltS |-> <<"flt.s {}, {}, {}", <<"rd", "rs1", "rs2">> >>,
      FleS |-> <<"fle.s {}, {}, {}", <<"rd", "rs1", "rs2">> >>,
      FClassS |-> <<"fclass.s {}, {}", <<"rd", "rs1">> >>,
      FaddD |-> <<"fadd.d {}, {}, {}", <<"rd", "rs1", "rs2">> >>,
      FsubD |-> <<"fsub.d {}, {}, {}", <<"rd", "rs1", "rs2">> >>,
      FmulD |-> <<"fmul.d {}, {}, {}", <<"rd", "rs1", "rs2">> >>,
      FdivD |-> <<"fdiv.d {}, {}, {}", <<"rd", "rs1", "rs2">> >>,
      FsqrtD |-> <<"fsqrt.d {}, {}", <<"rd", "rs1">> >>,
      FsgnjD |-> <<"fsgnj.d {}, {}, {}", <<"rd", "rs1", "rs2">> >>,
      FsgnjnD |-> <<"fsgnjn.d {}, {}, {}", <<"rd", "rs1", "rs2">> >>,
      FsgnjxD |-> <<"fsgnjx.d {}, {}, {}", <<"rd", "rs1", "rs2">> >>,
      FminD |-> <<"fmin.d {}, {}, {}", <<"rd", "rs1", "rs2">> >>,
      FmaxD |-> <<"fmax.d {}, {}, {}", <<"rd", "rs1", "rs2">> >>,
      FeqD |-> <<"feq.d {}, {}, {}", <<"rd", "rs1", "rs2">> >>,
      FltD |-> <<"flt.d {}, {}, {}", <<"rd", "rs1", "rs2">> >>,
      FleD |-> <<"fle.d {}, {}, {}", <<"rd", "rs1", "rs2">> >>,
      FClassD |-> <<"fclass.d {}, {}", <<"rd", "rs1">> >>,
      FcvtWD |-> <<"fcvt.w.d {}, {}", <<"rd", "rs1">> >>,
      FcvtWUD |-> <<"fcvt.wu.d {}, {}", <<"rd", "rs1">> >>,
      FcvtDW |-> <<"fcvt.d.w {}, {}", <<"rd", "rs1">> >>,
      FcvtDWU |-> <<"fcvt.d.wu {}, {}", <<"rd", "rs1">> >>,
      FcvtDS |-> <<"fcvt.d.s {}, {}", <<"rd", "rs1">> >>,
      FcvtSD |-> <<"fcvt.s.d {}, {}", <<"rd", "rs1">> >>,
      Mul |-> <<"mul {}, {}, {}", <<"rd", "rs1", "rs2">> >>,
      Mulh |-> <<"mulh {}, {}, {}", <<"rd", "rs1", "rs2">> >>,
      Mulsu |-> <<"mulsu {}, {}, {}", <<"rd", "rs1", "rs2">> >>,
      Mulu |-> <<"mulu {}, {}, {}", <<"rd", "rs1", "rs2">> >>,
      Div |-> <<"div {}, {}, {}", <<"rd", "rs1", "rs2">> >>,
      Divu |-> <<"divu {}, {}, {}", <<"rd", "rs1", "rs2">> >>,
      Rem |-> <<"rem {}, {}, {}", <<"rd", "rs1", "rs2">> >>,
      Remu |-> <<"remu {}, {}, {}", <<"rd", "rs1", "rs2">> >>,
      LrW |-> <<"lr.w {}, {}, {}, {}, {}", <<"rd", "rs1", "rs2", "rl as i32", "aq as i32">> >>,
      ScW |-> <<"sc.w {}, {}, {}, {}, {}", <<"rd", "rs1", "rs2", "rl as i32", "aq as i32">> >>,
      AmoswapW |-> <<"amoswap.w {}, {}, {}, {}, {}", <<"rd", "rs1", "rs2", "rl as i32", "aq as i32">> >>,
      AmoaddW |-> <<"amoadd.w {}, {}, {}, {}, {}", <<"rd", "rs1", "rs2", "rl as i32", "aq as i32">> >>,
      AmoandW |-> <<"amoand.w {}, {}, {}, {}, {}", <<"rd", "rs1", "rs2", "rl as i32", "aq as i32">> >>,
      AmoorW |-> <<"amoor.w {}, {}, {}, {}, {}", <<"rd", "rs1", "rs2", "rl as i32", "aq as i32">> >>,
      AmoxorW |-> <<"amoxor.w {}, {}, {}, {}, {}", <<"rd", "rs1", "rs2", "rl as i32", "aq as i32">> >>,
      AmomaxW |-> <<"amomax.w {}, {}, {}, {}, {}", <<"rd", "rs1", "rs2", "rl as i32", "aq as i32">> >>,
      AmominW |-> <<"amomin.w {}, {}, {}, {}, {}", <<"rd", "rs1", "rs2", "rl as i32", "aq as i32">> >>,
      CNop |-> <<"c.nop", <<>> >>,
      CAddi4Spn |-> <<"c.addi4spn {}, {}", <<"rd", "nzuimm as i32">> >>,
      CSlli |-> <<"c.slli {}, {}, {}", <<"rd", "rs1", "shamt as i32">> >>,
      FmaddD |-> <<"fmadd.d {}, {}, {}, {}", <<"rd", "rs1", "rs2", "rs3">> >>,
      FmsubD |-> <<"fmsub.d {}, {}, {}, {}", <<"rd", "rs1", "rs2", "rs3">> >>,
      FnmsubD |-> <<"fnmsub.d {}, {}, {}, {}", <<"rd", "rs1", "rs2", "rs3">> >>,
      FnmaddD |-> <<"fnmadd.d {}, {}, {}, {}", <<"rd", "rs1", "rs2", "rs3">> >> ]

\* one argument of an arm
DisplayArg(r, a) ==
    IF a \in {"rd", "rs1", "rs2", "rs3"} THEN RegArg(r[a])
    ELSE IF a = "imm as i32" THEN [chars |-> DisplayI32(r.imm)]
    ELSE IF a = "imm:#X" THEN [chars |-> UpperHexU32(r.imm)]
    ELSE IF a = "rl as i32" THEN [chars |-> DisplayI32(IF r.rl THEN 1 ELSE 0)]
    ELSE IF a = "aq as i32" THEN [chars |-> DisplayI32(IF r.aq THEN 1 ELSE 0)]
    ELSE IF a = "pred as i32" THEN [chars |-> DisplayI32(r.pred)]
    ELSE IF a = "succ as i32" THEN [chars |-> DisplayI32(r.succ)]
    ELSE IF a = "nzuimm as i32" THEN [chars |-> DisplayI32(r.nzuimm)]
    ELSE [chars |-> DisplayI32(r.shamt)]

\* the lookup unwrapped: an address without a name panics
CsrArg_unwrap(imm) ==
    IF imm \in DOMAIN CSRS THEN [name |-> CSRS[imm]] ELSE [panic |-> "unwrap on None"]

\* CSRS.get($imm).map(|v| *v).unwrap_or(format!("{}", $imm).as_str())
CsrArg(imm) ==
    IF imm \in DOMAIN CSRS THEN [name |-> CSRS[imm]] ELSE [chars |-> DisplayU32(imm)]

\* print_csr! taking the short form for rd = 0 only
print_csr_rd_zero_only(name, name_exp, rd, rs1, imm) ==
    IF rd = 0
    THEN Write("{} {}, {}", <<[name |-> name], CsrArg(imm), RegArg(rs1)>>)
    ELSE Write("{} {}, {}, {}",
               <<[name |-> name_exp], RegArg(rd), CsrArg(imm), RegArg(rs1)>>)

\* the macro print_csr!
print_csr(name, name_exp, rd, rs1, imm) ==
    IF rd = 0 \/ rd = rs1
    THEN Write("{} {}, {}", <<[name |-> name], CsrArg(imm), RegArg(rs1)>>)
    ELSE Write("{} {}, {}, {}",
               <<[name |-> name_exp], RegArg(rd), CsrArg(imm), RegArg(rs1)>>)

\* the Jalr arm: format!(..) of the operands, then write!(f, "jalr {args}")
DisplayJalr(rd, rs1, imm) ==
    LET args == IF imm = 0 /\ rd = rs1 THEN Write("{}", <<RegArg(rd)>>)
                ELSE IF imm = 0 THEN Write("{}, {}", <<RegArg(rd), RegArg(rs1)>>)
                ELSE IF rd = rs1
                     THEN Write("{}({})", <<[chars |-> DisplayI32(imm)], RegArg(rd)>>)
                ELSE Write("{}, {}({})",
                           <<RegArg(rd), [chars |-> DisplayI32(imm)], RegArg(rs1)>>)
    IN  IF args.tag = "Panic" THEN args ELSE Write("jalr {args}", <<args>>)

\* <InstructionDecoded as Display>::fmt
Display_fmt(r) ==
    IF r.tag = "Jalr" THEN DisplayJalr(r.rd, r.rs1, r.imm)
    ELSE IF r.tag = "CsrRw" THEN print_csr("csrw", "csrrw", r.rd, r.rs1, r.imm)
    ELSE IF r.tag = "CsrRs" THEN print_csr("csrs", "csrrs", r.rd, r.rs1, r.imm)
    ELSE IF r.tag = "CsrRc" THEN print_csr("csrc", "csrrc", r.rd, r.rs1, r.imm)
    ELSE IF r.tag = "CsrRwi" THEN print_csr("csrwi", "csrrwi", r.rd, r.rs1, r.imm)
    ELSE IF r.tag = "CsrRsi" THEN print_csr("csrsi", "csrrsi", r.rd, r.rs1, r.imm)
    ELSE IF r.tag = "CsrRci" THEN print_csr("csrci", "csrrci", r.rd, r.rs1, r.imm)
    ELSE LET arm == DisplayArms[r.tag]
         IN  Write(arm[1], [i \in 1 .. Len(arm[2]) |-> DisplayArg(r, arm[2][i])])

(***************************************************************************)
(* The words the callers pass.  A word is put together from its six        *)
(* R-type fields; every other view reads the same 32 bits.                 *)
(***************************************************************************)
MkWord(opcode, rd, funct3, rs1, rs2, funct7) ==
    (funct7 - (IF funct7 >= 64 THEN 128 ELSE 0)) * TwoTo(25)
    + rs2 * TwoTo(20) + rs1 * TwoTo(15) + funct3 * TwoTo(12) + rd * TwoTo(7) + opcode

\* the register indices sampled: 0, 31, 30, ..
MaxRegSample == 1

RegSamples == {(i * 31) % 32 : i \in 0 .. MaxRegSample}

\* the rs2 values sampled beyond 0 and 31: 1 .. MaxRs2Sample
MaxRs2Sample == 1

Rs2Samples == {0, 31} \cup (1 .. MaxRs2Sample)

Funct7Samples == {0, 1, 32, 64, 85, 127}

\* every opcode value, with the other fields all-zero or all-one
AllOpcodeWords ==
    {MkWord(op, rd, f3, rs1, rs2, f7) :
        op \in 0 .. 127, rd \in RegSamples, f3 \in 0 .. 7, rs1 \in RegSamples,
        rs2 \in {0, 31}, f7 \in {0, 127}}

\* the opcodes of the format table
TableOpcodes ==
    {LOAD_MATCH, FLOAD_MATCH, FENCE_MATCH, ARITMETIC_IMMEDIATE_MATCH, AUIPC_MATCH,
     STORE_MATCH, FSTORE_MATCH, ATOMIC_MATCH, ARITMETIC_REGISTER_MATCH, LUI_MATCH,
     FLOATING_POINT_MATCH, FMADDD_MATCH, FMSUBD_MATCH, FNMSUBD_MATCH, FNMADDD_MATCH,
     BRANCH_MATCH, JALR_MATCH, JAL_MATCH, CSR_MATCH}

\* the table's opcodes with more of the immediate bits
TableWords ==
    {MkWord(op, rd, f3, rs1, rs2, f7) :
        op \in TableOpcodes, rd \in RegSamples, f3 \in 0 .. 7, rs1 \in RegSamples,
        rs2 \in Rs2Samples, f7 \in Funct7Samples}

\* the opcodes whose decoders read funct7 (or the immediate in its place) as a
\* discriminant, with every funct3 and funct7
Funct7Opcodes ==
    {ARITMETIC_IMMEDIATE_MATCH, ATOMIC_MATCH, ARITMETIC_REGISTER_MATCH,
     FLOATING_POINT_MATCH, FMADDD_MATCH, FMSUBD_MATCH, FNMSUBD_MATCH, FNMADDD_MATCH,
     CSR_MATCH}

FineWords ==
    {MkWord(op, 21, f3, 10, rs2, f7) :
        op \in Funct7Opcodes, f3 \in 0 .. 7, rs2 \in {0, 1, 2}, f7 \in 0 .. 127}

\* the words of the tests of decoder.rs and instructions.rs and of the design
\* document, and the all-zero and all-one words
TestWords ==
    { 0,                                  \* 0x00000000
      -1,                                 \* 0xFFFFFFFF
      MkWord(19, 12, 0, 13, 4, 3),        \* 0x06468613  addi x12, x13, 100
      MkWord(115, 10, 1, 2, 4, 0),        \* 0x00411573  csrrw x10, x2, 4
      MkWord(3, 12, 2, 2, 12, 0),         \* 0x00c12603  lw x12, 12(sp)
      MkWord(103, 1, 0, 1, 12, 0),        \* 0x00c080e7  jalr x1, 12(ra)
      MkWord(35, 30, 2, 2, 1, 0),         \* 0x00112f23  sw ra, 30(sp)
      MkWord(99, 8, 0, 12, 10, 40),       \* 0x50A60463  beq x12, x10, 1288
      MkWord(99, 12, 1, 1, 4, 0),         \* 0x00409663  bne x1, x4, 12
      MkWord(99, 25, 0, 15, 0, 127),      \* 0xfe078ce3  beq x15, x0, -8
      MkWord(111, 0, 0, 0, 16, 0),        \* 0x0100006f  jal x0, 16
      MkWord(111, 1, 0, 0, 4, 4),         \* 0x084000EF  jal ra, 132
      MkWord(111, 1, 7, 31, 25, 125),     \* 0xfb9ff0ef  jal ra, -72
      MkWord(47, 15, 2, 9, 15, 6),        \* 0x0CF4A7AF  amoswap.w
      MkWord(83, 15, 7, 14, 0, 104),      \* 0xd00777d3  fcvt.s.w
      MkWord(83, 15, 7, 14, 0, 96),       \* 0xc00777d3  fcvt.w.s
      MkWord(83, 15, 0, 10, 0, 105),      \* 0xD20507D3  fcvt.d.w
      MkWord(83, 10, 1, 15, 0, 97),       \* 0xc2079553  fcvt.w.d
      MkWord(67, 15, 7, 11, 15, 5),       \* 0x0af5f7c3  fmadd.d
      MkWord(71, 0, 7, 15, 0, 9),         \* 0x1207f047  fmsub.d
      MkWord(83, 0, 0, 0, 0, 120),        \* 0xf0000053  fmv.w.x
      MkWord(83, 14, 0, 15, 0, 33),       \* 0x42078753  fcvt.d.s
      MkWord(83, 15, 7, 15, 1, 32),       \* 0x4017F7D3  fcvt.s.d
      MkWord(75, 11, 7, 15, 0, 45),       \* 0x5A07F5CB  fnmsub.d
      MkWord(19, 1, 5, 1, 1, 32) }        \* 0x4010d093  srai ra, ra, 1

\* CSR words: rd zero, rd equal to rs1 and rd different from both; the address
\* 0xF14 and the address 0xFFF
CsrWords ==
    { MkWord(115, rd, f3, 10, a[1], a[2]) :
          rd \in {0, 10, 21}, f3 \in 0 .. 7, a \in {<<20, 120>>, <<31, 127>>} }

Words == AllOpcodeWords \cup TableWords \cup FineWords \cup TestWords \cup CsrWords

(***************************************************************************)
(* One call of try_decode, stage by stage.                                 *)
(*   idle        no call in progress                                        *)
(*   called      try_decode entered, format not known                       *)
(*   classified  the format match chose fmt                                 *)
(*   done        try_decode returned result                                 *)
(* entered records the per-format decoder the call went into.              *)
(* returned is the log of the calls that returned, <<word, result>> each,  *)
(* kept where calls are made one after the other (SeqSpec); calls holds    *)
(* the locals of each caller where several call at once (MultiSpec).       *)
(***************************************************************************)
NoWord == "none"

NoResult == [tag |-> "none"]

NoDecoder == "none"

NoText == [tag |-> "none"]

\* the threads that call try_decode at the same time
NCallers == 2

Callers == 1 .. NCallers

\* the locals of one caller's call of try_decode; IdleCall when it is in no call
IdleCall == [inst |-> NoWord, stage |-> "idle", fmt |-> NoFormat, result |-> NoResult]

Init ==
    /\ inst = NoWord
    /\ stage = "idle"
    /\ fmt = NoFormat
    /\ entered = NoDecoder
    /\ result = NoResult
    /\ text = NoText
    /\ returned = <<>>
    /\ calls = [c \in Callers |-> IdleCall]

\* a caller calls try_decode(w)
Call(w) ==
    /\ stage = "idle"
    /\ inst' = w
    /\ stage' = "called"
    /\ UNCHANGED <<fmt, entered, result, text, returned, calls>>

\* match inst & COMPRESSED_MASK { 0 | 1 | 2 => return try_decode_compressed(inst), .. }
TryDecodeCompressed ==
    /\ stage = "called"
    /\ is_compressed(inst)
    /\ result' = try_decode_compressed(inst)
    /\ stage' = "done"
    /\ UNCHANGED <<inst, fmt, entered, text, returned, calls>>

\* the classification kept from the call before: the format is that of the word
\* that returned last
Classify_last_format ==
    /\ stage = "called"
    /\ ~is_compressed(inst)
    /\ LET last == IF returned = <<>> THEN inst ELSE returned[Len(returned)][1]
           f == InstructionFormat(BitAnd(last, OPCODE_MASK))
       IN  IF f = NoFormat
           THEN /\ result' = unknown_format(inst)
                /\ stage' = "done"
                /\ UNCHANGED <<inst, fmt, entered, text, returned, calls>>
           ELSE /\ fmt' = f
                /\ stage' = "classified"
                /\ UNCHANGED <<inst, entered, result, text, returned, calls>>

\* let fmt = match inst & OPCODE_MASK { .. }: a format, or the `?` returns the error
Classify ==
    /\ stage = "called"
    /\ ~is_compressed(inst)
    /\ LET f == InstructionFormat(BitAnd(inst, OPCODE_MASK))
       IN  IF f = NoFormat
           THEN /\ result' = unknown_format(inst)
                /\ stage' = "done"
                /\ UNCHANGED <<inst, fmt, entered, text, returned, calls>>
           ELSE /\ fmt' = f
                /\ stage' = "classified"
                /\ UNCHANGED <<inst, entered, result, text, returned, calls>>

\* a failed decode_rtype followed by a try of the next format's decoder
DecodeRType_then_itype ==
    /\ stage = "classified"
    /\ fmt = "RType"
    /\ entered' = "decode_rtype"
    /\ IF IsErr(decode_rtype(inst))
       THEN /\ fmt' = "IType"
            /\ UNCHANGED <<stage, result>>
       ELSE /\ result' = decode_rtype(inst)
            /\ stage' = "done"
            /\ UNCHANGED fmt
    /\ UNCHANGED <<inst, text, returned, calls>>

\* InstructionFormat::RType => decode_rtype(inst)?, then Ok(inst)
DecodeRType ==
    /\ stage = "classified"
    /\ fmt = "RType"
    /\ entered' = "decode_rtype"
    /\ result' = decode_rtype(inst)
    /\ stage' = "done"
    /\ UNCHANGED <<inst, fmt, text, returned, calls>>

\* InstructionFormat::IType => decode_itype(inst)?, then Ok(inst)
DecodeIType ==
    /\ stage = "classified"
    /\ fmt = "IType"
    /\ entered' = "decode_itype"
    /\ result' = decode_itype(inst)
    /\ stage' = "done"
    /\ UNCHANGED <<inst, fmt, text, returned, calls>>

\* InstructionFormat::SType => decode_stype(inst)?, then Ok(inst)
DecodeSType ==
    /\ stage = "classified"
    /\ fmt = "SType"
    /\ entered' = "decode_stype"
    /\ result' = decode_stype(inst)
    /\ stage' = "done"
    /\ UNCHANGED <<inst, fmt, text, returned, calls>>

\* InstructionFormat::UType => decode_utype(inst)?, then Ok(inst)
DecodeUType ==
    /\ stage = "classified"
    /\ fmt = "UType"
    /\ entered' = "decode_utype"
    /\ result' = decode_utype(inst)
    /\ stage' = "done"
    /\ UNCHANGED <<inst, fmt, text, returned, calls>>

\* InstructionFormat::BType => decode_btype(inst)?, then Ok(inst)
DecodeBType ==
    /\ stage = "classified"
    /\ fmt = "BType"
    /\ entered' = "decode_btype"
    /\ result' = decode_btype(inst)
    /\ stage' = "done"
    /\ UNCHANGED <<inst, fmt, text, returned, calls>>

\* InstructionFormat::JType => decode_jtype(inst)?, then Ok(inst)
DecodeJType ==
    /\ stage = "classified"
    /\ fmt = "JType"
    /\ entered' = "decode_jtype"
    /\ result' = decode_jtype(inst)
    /\ stage' = "done"
    /\ UNCHANGED <<inst, fmt, text, returned, calls>>

\* the caller takes the result; the call leaves nothing behind
Return ==
    /\ stage = "done"
    /\ inst' = NoWord
    /\ stage' = "idle"
    /\ fmt' = NoFormat
    /\ entered' = NoDecoder
    /\ result' = NoResult
    /\ text' = NoText
    /\ UNCHANGED <<returned, calls>>

\* the caller writes the decoded instruction with `{}`
Display ==
    /\ stage = "done"
    /\ IsOk(result)
    /\ text = NoText
    /\ text' = Display_fmt(result)
    /\ UNCHANGED <<inst, stage, fmt, entered, result, returned, calls>>

Next ==
    \/ (stage = "idle" /\ \E w \in Words : Call(w))
    \/ TryDecodeCompressed
    \/ Classify
    \/ DecodeRType
    \/ DecodeIType
    \/ DecodeSType
    \/ DecodeUType
    \/ DecodeBType
    \/ DecodeJType
    \/ Display
    \/ Return

Spec == Init /\ [][Next]_vars

(***************************************************************************)
(* A call that was entered runs to its return: try_decode and the          *)
(* per-format decoders are straight-line code without loops or waits.      *)
(***************************************************************************)
Step ==
    \/ TryDecodeCompressed
    \/ Classify
    \/ DecodeRType
    \/ DecodeIType
    \/ DecodeSType
    \/ DecodeUType
    \/ DecodeBType
    \/ DecodeJType

\* the words of the calls followed to their end: every opcode value with the
\* other fields all-zero and all-one, and the repository's test vectors
FairWords ==
    {MkWord(op, 0, 0, 0, 0, 0) : op \in 0 .. 127}
        \cup {MkWord(op, 31, 7, 31, 31, 127) : op \in 0 .. 127}
        \cup TestWords

FairNext ==
    \/ (stage = "idle" /\ \E w \in FairWords : Call(w))
    \/ Step
    \/ Display
    \/ Return

FairSpec == Init /\ [][FairNext]_vars /\ WF_vars(Step)

(***************************************************************************)
(* Calls made one after the other by one caller, each logged at its        *)
(* return.  The words: a compressed one, one with an unknown opcode, one   *)
(* of each format, and an R-type word that its decoder rejects.            *)
(***************************************************************************)
SeqWords ==
    { 0, -1,
      MkWord(47, 15, 2, 9, 15, 6),        \* amoswap.w
      MkWord(47, 21, 2, 10, 0, 8),        \* lr.w
      MkWord(19, 12, 0, 13, 4, 3),        \* addi
      MkWord(35, 30, 2, 2, 1, 0),         \* sw
      MkWord(55, 1, 0, 0, 0, 0),          \* lui
      MkWord(99, 8, 0, 12, 10, 40),       \* beq
      MkWord(111, 0, 0, 0, 16, 0) }       \* jal

\* the calls one run makes
MaxCalls == 4

SeqCall(w) ==
    /\ stage = "idle"
    /\ Len(returned) < MaxCalls
    /\ inst' = w
    /\ stage' = "called"
    /\ UNCHANGED <<fmt, entered, result, text, returned, calls>>

\* the caller takes the result and keeps it; the call leaves nothing behind
SeqReturn ==
    /\ stage = "done"
    /\ returned' = Append(returned, <<inst, result>>)
    /\ inst' = NoWord
    /\ stage' = "idle"
    /\ fmt' = NoFormat
    /\ entered' = NoDecoder
    /\ result' = NoResult
    /\ text' = NoText
    /\ UNCHANGED calls

SeqNext ==
    \/ (stage = "idle" /\ \E w \in SeqWords : SeqCall(w))
    \/ TryDecodeCompressed
    \/ Classify
    \/ DecodeRType
    \/ DecodeIType
    \/ DecodeSType
    \/ DecodeUType
    \/ DecodeBType
    \/ DecodeJType
    \/ Display
    \/ SeqReturn

SeqSpec == Init /\ [][SeqNext]_vars

(***************************************************************************)
(* Several callers in try_decode at once, their steps interleaved.  Each   *)
(* caller's call has its own inst, fmt and result: all are locals of the   *)
(* function, and decoder.rs has no static, no cell and no unsafe block.    *)
(***************************************************************************)
CallerCall(c, w) ==
    /\ calls[c].stage = "idle"
    /\ calls' = [calls EXCEPT ![c] = [IdleCall EXCEPT !.inst = w, !.stage = "called"]]
    /\ UNCHANGED <<inst, stage, fmt, entered, result, text, returned>>

CallerTryDecodeCompressed(c) ==
    /\ calls[c].stage = "called"
    /\ is_compressed(calls[c].inst)
    /\ calls' = [calls EXCEPT ![c] = [@ EXCEPT !.result = try_decode_compressed(calls[c].inst),
                                               !.stage = "done"]]
    /\ UNCHANGED <<inst, stage, fmt, entered, result, text, returned>>

\* the word read from the slot of caller 1 while caller 1 is in a call
CallerClassify_first_slot(c) ==
    /\ calls[c].stage = "called"
    /\ ~is_compressed(calls[c].inst)
    /\ LET w == IF calls[1].stage = "idle" THEN calls[c].inst ELSE calls[1].inst
           f == InstructionFormat(BitAnd(w, OPCODE_MASK))
       IN  calls' = [calls EXCEPT ![c] =
                        IF f = NoFormat
                        THEN [@ EXCEPT !.result = unknown_format(calls[c].inst), !.stage = "done"]
                        ELSE [@ EXCEPT !.fmt = f, !.stage = "classified"]]
    /\ UNCHANGED <<inst, stage, fmt, entered, result, text, returned>>

CallerClassify(c) ==
    /\ calls[c].stage = "called"
    /\ ~is_compressed(calls[c].inst)
    /\ LET f == InstructionFormat(BitAnd(calls[c].inst, OPCODE_MASK))
       IN  calls' = [calls EXCEPT ![c] =
                        IF f = NoFormat
                        THEN [@ EXCEPT !.result = unknown_format(calls[c].inst), !.stage = "done"]
                        ELSE [@ EXCEPT !.fmt = f, !.stage = "classified"]]
    /\ UNCHANGED <<inst, stage, fmt, entered, result, text, returned>>

CallerDecode(c) ==
    /\ calls[c].stage = "classified"
    /\ calls' = [calls EXCEPT ![c] = [@ EXCEPT !.result = decode_format(calls[c].fmt, calls[c].inst),
                                               !.stage = "done"]]
    /\ UNCHANGED <<inst, stage, fmt, entered, result, text, returned>>

CallerReturn(c) ==
    /\ calls[c].stage = "done"
    /\ calls' = [calls EXCEPT ![c] = IdleCall]
    /\ UNCHANGED <<inst, stage, fmt, entered, result, text, returned>>

MultiNext ==
    \E c \in Callers :
        \/ (calls[c].stage = "idle" /\ \E w \in SeqWords : CallerCall(c, w))
        \/ CallerTryDecodeCompressed(c)
        \/ CallerClassify(c)
        \/ CallerDecode(c)
        \/ CallerReturn(c)

MultiSpec == Init /\ [][MultiNext]_vars

(***************************************************************************)
(* The vocabulary of the properties: the bits of the word as the           *)
(* instruction-set manual numbers them.                                    *)
(***************************************************************************)
\* bits hi..lo of w as an unsigned number
RECURSIVE Bits(_, _, _)
Bits(w, hi, lo) == IF hi < lo THEN 0 ELSE Bits(w, hi - 1, lo) + Bit(w, hi) * TwoTo(hi - lo)

\* the n-bit number v read as two's complement and extended to the word width
SignExtend(v, n) == IF v >= TwoTo(n - 1) THEN v - TwoTo(n) ELSE v

Opcode == Bits(inst, 6, 0)

Low2 == Bits(inst, 1, 0)

Done == stage = "done"

\* the variants of enum InstructionDecoded
Variants ==
    {"Lb", "Lh", "Lw", "Lbu", "Lhu", "Lwu", "Addi", "Slli", "Slti", "Sltiu", "Xori",
     "Srli", "Srai", "Ori", "Andi", "AuiPc", "Sb", "Sh", "Sw", "Add", "Sub", "Sll",
     "Slt", "Sltu", "Xor", "Srl", "Sra", "Or", "And", "Lui", "Beq", "Bne", "Blt",
     "Bge", "Bltu", "Bgeu", "Jalr", "Jal", "ECall", "EBreak", "SRet", "MRet",
     "SFenceVma", "CsrRw", "CsrRs", "CsrRc", "CsrRwi", "CsrRsi", "CsrRci", "Fence",
     "FenceI", "Flw", "Fsw", "FmaddS", "FmsubS", "FnmaddS", "FnmsubS", "FaddS",
     "FsubS", "FmulS", "FdivS", "FsqrtS", "FsgnjS", "FsgnjnS", "FsgnjxS", "FminS",
     "FmaxS", "FcvtSW", "FcvtSWU", "FcvtWS", "FcvtWUS", "FcvtWD", "FcvtWUD",
     "FcvtDW", "FcvtDWU", "FmvXW", "FmvWX", "FeqS", "FltS", "FleS", "FClassS",
     "FmaddD", "FmsubD", "FnmaddD", "FnmsubD", "Fld", "Fsd", "FcvtSD", "FcvtDS",
     "FaddD", "FsubD", "FmulD", "FdivD", "FsqrtD", "FsgnjD", "FsgnjnD", "FsgnjxD",
     "FminD", "FmaxD", "FeqD", "FltD", "FleD", "FClassD", "Mul", "Mulh", "Mulsu",
     "Mulu", "Div", "Divu", "Rem", "Remu", "LrW", "ScW", "AmoswapW", "AmoaddW",
     "AmoandW", "AmoorW", "AmoxorW", "AmomaxW", "AmominW", "CAddi4Spn", "CNop",
     "CSlli"}

(***************************************************************************)
(* C1.  For every 32-bit word, the all-zero and the all-one word included, *)
(* try_decode returns Ok(variant) or Err: a call that has returned holds a *)
(* variant of InstructionDecoded or an error, never a panic, and a call    *)
(* that has not returned can always take its next step.                    *)
(***************************************************************************)
C1_Total ==
    /\ Done => (result.tag \in Variants \/ IsErr(result))
    /\ stage = "classified" =>
           fmt \in {"RType", "IType", "SType", "UType", "BType", "JType"}
    /\ stage \in {"called", "classified"} => result = NoResult

\* the all-one word has been decoded, to an error
C1_Witness == Done /\ inst = -1 /\ IsErr(result)

TableFormat(op) ==
    IF op \in {3, 7, 15, 19, 103, 115} THEN "IType"
    ELSE IF op \in {23, 55} THEN "UType"
    ELSE IF op \in {35, 39} THEN "SType"
    ELSE IF op \in {47, 51, 83, 67, 71, 75, 79} THEN "RType"
    ELSE IF op = 99 THEN "BType"
    ELSE IF op = 111 THEN "JType"
    ELSE "none"

DecoderOf(f) ==
    IF f = "IType" THEN "decode_itype"
    ELSE IF f = "UType" THEN "decode_utype"
    ELSE IF f = "SType" THEN "decode_stype"
    ELSE IF f = "RType" THEN "decode_rtype"
    ELSE IF f = "BType" THEN "decode_btype"
    ELSE IF f = "JType" THEN "decode_jtype"
    ELSE "none"

C3_OpcodeTable ==
    /\ stage = "classified" => (TableFormat(Opcode) # "none" /\ fmt = TableFormat(Opcode))
    /\ (Done /\ Low2 = 3) =>
           /\ fmt = TableFormat(Opcode)
           /\ entered = DecoderOf(TableFormat(Opcode))
           /\ TableFormat(Opcode) = "none" => IsErr(result)

\* a branch word has gone through decode_btype
C3_Witness == Done /\ Opcode = 99 /\ fmt = "BType" /\ entered = "decode_btype"

(***************************************************************************)
(* C4.  The error kind returned for a word whose opcode has no table entry *)
(* differs from the error kind returned for a word whose opcode is in the  *)
(* table but whose sub-fields match no catalog entry.                      *)
(***************************************************************************)
C4_DistinctErrorKinds ==
    (Done /\ IsErr(result) /\ entered # NoDecoder) =>
        result.error # unknown_format(inst).error

(***************************************************************************)
(* C5.  For every word decoded to Ok, each register-index field of the     *)
(* result (rd, rs1, rs2, rs3) is in 0..31, and the imm of a CSR variant is *)
(* the zero-extended word bits 31:20, in 0..4095 also when bit 31 is set.  *)
(***************************************************************************)
RegisterFields == {"rd", "rs1", "rs2", "rs3"}

CsrVariants == {"CsrRw", "CsrRs", "CsrRc", "CsrRwi", "CsrRsi", "CsrRci"}

C5_FieldRanges ==
    (Done /\ IsOk(result)) =>
        /\ \A f \in RegisterFields \cap DOMAIN result : 0 <= result[f] /\ result[f] <= 31
        /\ result.tag \in CsrVariants =>
               /\ result.imm = Bits(inst, 31, 20)
               /\ 0 <= result.imm /\ result.imm <= 4095

\* a CSR word with bit 31 set has been decoded, address 0xFFF
C5_Witness ==
    Done /\ result.tag = "CsrRs" /\ inst < 0 /\ result.imm = 4095 /\ result.rs1 = 31

(***************************************************************************)
(* C6.  A word with opcode 19 and funct3 0 decodes to Addi with rd = bits  *)
(* 11:7, rs1 = bits 19:15 and imm = bits 31:20 sign-extended from bit 11   *)
(* to the word width: 0x06468613 gives Addi{12, 13, 100}, and with bit 31  *)
(* set the upper 20 bits of imm are all 1.                                 *)
(***************************************************************************)
C6_Addi ==
    (Done /\ Opcode = 19 /\ Bits(inst, 14, 12) = 0) =>
        /\ result = [tag |-> "Addi", rd |-> Bits(inst, 11, 7), rs1 |-> Bits(inst, 19, 15),
                     imm |-> SignExtend(Bits(inst, 31, 20), 12)]
        /\ Bit(inst, 31) = 1 => \A i \in 12 .. 31 : Bit(result.imm, i) = 1
        /\ inst = MkWord(19, 12, 0, 13, 4, 3) =>
               result = [tag |-> "Addi", rd |-> 12, rs1 |-> 13, imm |-> 100]

\* an addi with a negative immediate has been decoded
C6_Witness ==
    Done /\ Opcode = 19 /\ Bits(inst, 14, 12) = 0 /\ Bit(inst, 31) = 1
         /\ result.tag = "Addi" /\ result.imm < 0

(***************************************************************************)
(* C7.  A word with opcode 99 and a defined branch funct3 decodes to the   *)
(* branch variant whose imm is bit31<<12 | bit7<<11 | bits30:25<<5 |       *)
(* bits11:8<<1 sign-extended from bit 12, so its lowest bit is 0;          *)
(* 0xfe078ce3 decodes to Beq{rs1: 15, rs2: 0, imm: -8}.                    *)
(***************************************************************************)
BranchImm(w) ==
    SignExtend(Bit(w, 31) * 4096 + Bit(w, 7) * 2048 + Bits(w, 30, 25) * 32
               + Bits(w, 11, 8) * 2, 13)

C7_BranchImm ==
    (Done /\ Opcode = 99 /\ Bits(inst, 14, 12) \in {0, 1, 4, 5, 6, 7}) =>
        /\ IsOk(result)
        /\ result.imm = BranchImm(inst)
        /\ Bit(result.imm, 0) = 0
        /\ inst = MkWord(99, 25, 0, 15, 0, 127) =>
               result = [tag |-> "Beq", rs1 |-> 15, rs2 |-> 0, imm |-> -8]

(***************************************************************************)
(* C8.  A word with opcode 35 or 39 and a defined store funct3 (SB 0, SH   *)
(* 1, SW 2; FSW 2, FSD 3) decodes to that variant with rs1 = bits 19:15,   *)
(* rs2 = bits 24:20 and imm = (bits 31:25 << 5 | bits 11:7) sign-extended  *)
(* from bit 11; 0x00112f23 gives rs1 2, rs2 1, imm 30.                     *)
(***************************************************************************)
StoreVariant(op, funct3) ==
    IF op = 35 /\ funct3 = 0 THEN "Sb"
    ELSE IF op = 35 /\ funct3 = 1 THEN "Sh"
    ELSE IF op = 35 /\ funct3 = 2 THEN "Sw"
    ELSE IF op = 39 /\ funct3 = 2 THEN "Fsw"
    ELSE IF op = 39 /\ funct3 = 3 THEN "Fsd"
    ELSE "none"

C8_StoreImm ==
    (Done /\ Opcode \in {35, 39} /\ StoreVariant(Opcode, Bits(inst, 14, 12)) # "none") =>
        /\ result = [tag |-> StoreVariant(Opcode, Bits(inst, 14, 12)),
                     rs1 |-> Bits(inst, 19, 15), rs2 |-> Bits(inst, 24, 20),
                     imm |-> SignExtend(Bits(inst, 31, 25) * 32 + Bits(inst, 11, 7), 12)]
        /\ inst = MkWord(35, 30, 2, 2, 1, 0) =>
               (result.rs1 = 2 /\ result.rs2 = 1 /\ result.imm = 30)

\* a store with a negative offset has been decoded
C8_Witness ==
    Done /\ Opcode = 35 /\ result.tag = "Sw" /\ result.imm < 0 /\ Bits(inst, 11, 7) # 0

(***************************************************************************)
(* C9.  A word with opcode 111 decodes to Jal with rd = bits 11:7 and imm  *)
(* = bit31<<20 | bits19:12<<12 | bit20<<11 | bits30:21<<1 sign-extended    *)
(* from bit 20, lowest bit 0; 0x0100006f gives 16, 0x084000EF gives 132    *)
(* and 0xfb9ff0ef gives -72.                                               *)
(***************************************************************************)
JalImm(w) ==
    SignExtend(Bit(w, 31) * TwoTo(20) + Bits(w, 19, 12) * 4096 + Bit(w, 20) * 2048
               + Bits(w, 30, 21) * 2, 21)

C9_JalImm ==
    (Done /\ Opcode = 111) =>
        /\ result = [tag |-> "Jal", rd |-> Bits(inst, 11, 7), imm |-> JalImm(inst)]
        /\ Bit(result.imm, 0) = 0
        /\ inst = MkWord(111, 0, 0, 0, 16, 0) => result.imm = 16
        /\ inst = MkWord(111, 1, 0, 0, 4, 4) => result.imm = 132
        /\ inst = MkWord(111, 1, 7, 31, 25, 125) => result.imm = -72

\* jal ra, -72 has been decoded
C9_Witness == Done /\ inst = MkWord(111, 1, 7, 31, 25, 125) /\ result.imm = -72

(***************************************************************************)
(* C10.  A word with opcode 55 decodes to Lui and one with opcode 23 to    *)
(* AuiPc, with rd = bits 11:7 and imm equal to the word with its low 12    *)
(* bits cleared: bits 31:12 stay in place and are not shifted right.       *)
(***************************************************************************)
C10_UpperImm ==
    (Done /\ Opcode \in {55, 23}) =>
        result = [tag |-> IF Opcode = 55 THEN "Lui" ELSE "AuiPc",
                  rd  |-> Bits(inst, 11, 7),
                  imm |-> inst - Bits(inst, 11, 0)]

\* an auipc with bit 31 and lower immediate bits set has been decoded
C10_Witness ==
    Done /\ Opcode = 23 /\ result.tag = "AuiPc" /\ result.imm < 0
         /\ Bits(inst, 19, 12) = 255 /\ result.rd = 31


(***************************************************************************)
(* C11.  A word with opcode 47, funct3 2 and the AMOSWAP.W funct5 (00001)  *)
(* in bits 31:27 decodes to AmoswapW with rd, rs1, rs2 from bits 11:7,     *)
(* 19:15, 24:20, aq = word bit 26 and rl = word bit 25; 0x0CF4A7AF gives   *)
(* AmoswapW{rd: 15, rs1: 9, rs2: 15, rl: false, aq: true}.                 *)
(***************************************************************************)
Funct3 == Bits(inst, 14, 12)

Funct5 == Bits(inst, 31, 27)

C11_AmoswapW ==
    (Done /\ Opcode = 47 /\ Funct3 = 2 /\ Funct5 = 1) =>
        /\ result = [tag |-> "AmoswapW", rd |-> Bits(inst, 11, 7),
                     rs1 |-> Bits(inst, 19, 15), rs2 |-> Bits(inst, 24, 20),
                     rl |-> (Bit(inst, 25) = 1), aq |-> (Bit(inst, 26) = 1)]
        /\ inst = MkWord(47, 15, 2, 9, 15, 6) =>
               result = [tag |-> "AmoswapW", rd |-> 15, rs1 |-> 9, rs2 |-> 15,
                         rl |-> FALSE, aq |-> TRUE]

\* amoswap.w with aq set and rl clear has been decoded
C11_Witness ==
    Done /\ inst = MkWord(47, 15, 2, 9, 15, 6) /\ result.tag = "AmoswapW"
         /\ result.aq /\ ~result.rl

(***************************************************************************)
(* C12.  For a word with opcode 47 and funct3 2, each of the nine funct5   *)
(* values of LR.W, SC.W, AMOSWAP.W, AMOADD.W, AMOAND.W, AMOOR.W, AMOXOR.W, *)
(* AMOMAX.W and AMOMIN.W decodes to its own variant, with aq and rl taken  *)
(* from the low 2 bits of funct7.                                          *)
(***************************************************************************)
AtomicVariant(funct5) ==
    IF funct5 = 2 THEN "LrW"
    ELSE IF funct5 = 3 THEN "ScW"
    ELSE IF funct5 = 1 THEN "AmoswapW"
    ELSE IF funct5 = 0 THEN "AmoaddW"
    ELSE IF funct5 = 12 THEN "AmoandW"
    ELSE IF funct5 = 8 THEN "AmoorW"
    ELSE IF funct5 = 4 THEN "AmoxorW"
    ELSE IF funct5 = 20 THEN "AmomaxW"
    ELSE IF funct5 = 16 THEN "AmominW"
    ELSE "none"

C12_AtomicVariants ==
    (Done /\ Opcode = 47 /\ Funct3 = 2 /\ AtomicVariant(Funct5) # "none") =>
        /\ IsOk(result)
        /\ result.tag = AtomicVariant(Funct5)
        /\ result.aq = (Bit(inst, 26) = 1)
        /\ result.rl = (Bit(inst, 25) = 1)

(***************************************************************************)
(* C13.  For a word with opcode 83 the fmt field (low 2 bits of funct7)    *)
(* selects the precision sub-decoder: two words that differ only in fmt    *)
(* never decode to the same variant, no fmt-0 word yields a variant of the *)
(* double-precision decoder and no fmt-1 word one of the single-precision  *)
(* decoder; 0xd00777d3 gives FcvtSW{rd: 15, rs1: 14} and 0xD20507D3 gives  *)
(* FcvtDW{rd: 15, rs1: 10}.                                                *)
(***************************************************************************)
Fmt == Bits(inst, 26, 25)

\* the word w with its fmt field set to f
WithFmt(w, f) == (w - Bits(w, 26, 25) * TwoTo(25)) + f * TwoTo(25)

SingleVariants ==
    {"FaddS", "FsubS", "FmulS", "FdivS", "FsqrtS", "FsgnjS", "FsgnjnS", "FsgnjxS",
     "FminS", "FmaxS", "FcvtWS", "FcvtWUS", "FeqS", "FltS", "FleS", "FClassS",
     "FcvtSW", "FcvtSWU", "FmvXW", "FmvWX", "FcvtSD"}

DoubleVariants ==
    {"FcvtDW", "FcvtDWU", "FaddD", "FsubD", "FmulD", "FdivD", "FsgnjD", "FsgnjnD",
     "FsgnjxD", "FminD", "FmaxD", "FcvtDS", "FeqD", "FltD", "FleD", "FClassD",
     "FcvtWD", "FcvtWUD", "FsqrtD"}

C13_FmtSelectsPrecision ==
    (Done /\ Opcode = 83) =>
        /\ IsOk(result) =>
               /\ \A f \in (0 .. 3) \ {Fmt} :
                      LET other == try_decode(WithFmt(inst, f))
                      IN  IsOk(other) => other.tag # result.tag
               /\ Fmt = 0 => result.tag \in SingleVariants
               /\ Fmt = 1 => result.tag \in DoubleVariants
               /\ Fmt \in {0, 1}
        /\ inst = MkWord(83, 15, 7, 14, 0, 104) =>
               result = [tag |-> "FcvtSW", rd |-> 15, rs1 |-> 14]
        /\ inst = MkWord(83, 15, 0, 10, 0, 105) =>
               result = [tag |-> "FcvtDW", rd |-> 15, rs1 |-> 10]

\* fcvt.d.w has been decoded by the double-precision decoder, and the word
\* with fmt 0 in its place decodes to a single-precision variant
C13_Witness ==
    Done /\ inst = MkWord(83, 15, 0, 10, 0, 105) /\ result.tag = "FcvtDW"
         /\ try_decode(WithFmt(inst, 0)).tag = "FcvtSW"


(***************************************************************************)
(* C14.  Every word with opcode 83 and fmt 3 (quad precision) fails, for   *)
(* every funct3, funct5 and register field, with a dedicated not-supported *)
(* error whose kind differs from the kind of the error returned for an     *)
(* unknown encoding (here: the same word with the undefined fmt 2); it     *)
(* never returns Ok.                                                       *)
(***************************************************************************)
C14_QuadDedicatedKind ==
    (Done /\ Opcode = 83 /\ Fmt = 3) =>
        /\ IsErr(result)
        /\ result.error # try_decode(WithFmt(inst, 2)).error

(***************************************************************************)
(* C15.  In each FCVT group (FCVT.W.S/FCVT.WU.S, FCVT.S.W/FCVT.S.WU,       *)
(* FCVT.W.D/FCVT.WU.D, FCVT.D.W/FCVT.D.WU) the rs2 field selects between   *)
(* the signed and the unsigned variant: with the group's funct5 and fmt,   *)
(* rs2 = 0 decodes to the signed variant and rs2 = 1 to the unsigned one.  *)
(***************************************************************************)
FcvtVariant(fmt_, funct5, rs2) ==
    IF fmt_ = 0 /\ funct5 = 24 THEN (IF rs2 = 0 THEN "FcvtWS" ELSE "FcvtWUS")
    ELSE IF fmt_ = 0 /\ funct5 = 26 THEN (IF rs2 = 0 THEN "FcvtSW" ELSE "FcvtSWU")
    ELSE IF fmt_ = 1 /\ funct5 = 24 THEN (IF rs2 = 0 THEN "FcvtWD" ELSE "FcvtWUD")
    ELSE (IF rs2 = 0 THEN "FcvtDW" ELSE "FcvtDWU")

C15_FcvtSelectedByRs2 ==
    (Done /\ Opcode = 83 /\ Fmt \in {0, 1} /\ Funct5 \in {24, 26}
          /\ Bits(inst, 24, 20) \in {0, 1}) =>
        /\ IsOk(result)
        /\ result.tag = FcvtVariant(Fmt, Funct5, Bits(inst, 24, 20))

(***************************************************************************)
(* C16.  A word whose opcode is one of the four double-precision fused     *)
(* multiply-add opcodes decodes to FmaddD (67), FmsubD (71), FnmsubD (75)  *)
(* or FnmaddD (79) by the opcode alone, with rd, rs1, rs2 from bits 11:7,  *)
(* 19:15, 24:20 and rs3 = bits 31:27, whatever funct3 and fmt are;         *)
(* 0x0af5f7c3 gives FmaddD{15, 11, 15, 1}, 0x1207f047 FmsubD{0, 15, 0, 2}, *)
(* 0x5A07F5CB FnmsubD{11, 15, 0, 11}.                                      *)
(***************************************************************************)
FusedVariant(op) ==
    IF op = 67 THEN "FmaddD"
    ELSE IF op = 71 THEN "FmsubD"
    ELSE IF op = 75 THEN "FnmsubD"
    ELSE "FnmaddD"

C16_FusedMultiplyAdd ==
    (Done /\ Opcode \in {67, 71, 75, 79}) =>
        /\ result = [tag |-> FusedVariant(Opcode), rd |-> Bits(inst, 11, 7),
                     rs1 |-> Bits(inst, 19, 15), rs2 |-> Bits(inst, 24, 20),
                     rs3 |-> Bits(inst, 31, 27)]
        /\ inst = MkWord(67, 15, 7, 11, 15, 5) =>
               result = [tag |-> "FmaddD", rd |-> 15, rs1 |-> 11, rs2 |-> 15, rs3 |-> 1]
        /\ inst = MkWord(71, 0, 7, 15, 0, 9) =>
               result = [tag |-> "FmsubD", rd |-> 0, rs1 |-> 15, rs2 |-> 0, rs3 |-> 2]
        /\ inst = MkWord(75, 11, 7, 15, 0, 45) =>
               result = [tag |-> "FnmsubD", rd |-> 11, rs1 |-> 15, rs2 |-> 0, rs3 |-> 11]

\* a fused multiply-add word with fmt 3 and a non-zero funct3 has been decoded
C16_Witness ==
    Done /\ Opcode = 79 /\ Fmt = 3 /\ Funct3 = 5 /\ result.tag = "FnmaddD"
         /\ result.rs3 = 31


(***************************************************************************)
(* C17.  For a word with opcode 19 and funct3 1 or 5 the variant is chosen *)
(* by funct3 and all of word bits 31:25: Slli (funct3 1) and Srli (funct3  *)
(* 5) require 0000000, Srai (funct3 5) requires 0100000, every other value *)
(* of the 7 bits, bit 31 set included, fails; on success imm is the shift  *)
(* amount in bits 24:20.  0x4010d093 gives Srai{rd: 1, rs1: 1, imm: 1}.    *)
(***************************************************************************)
ShiftVariant(funct3, top7) ==
    IF funct3 = 1 /\ top7 = 0 THEN "Slli"
    ELSE IF funct3 = 5 /\ top7 = 0 THEN "Srli"
    ELSE IF funct3 = 5 /\ top7 = 32 THEN "Srai"
    ELSE "none"

C17_ShiftDiscriminant ==
    (Done /\ Opcode = 19 /\ Funct3 \in {1, 5}) =>
        /\ IF ShiftVariant(Funct3, Bits(inst, 31, 25)) = "none"
           THEN IsErr(result)
           ELSE result = [tag |-> ShiftVariant(Funct3, Bits(inst, 31, 25)),
                          rd |-> Bits(inst, 11, 7), rs1 |-> Bits(inst, 19, 15),
                          imm |-> Bits(inst, 24, 20)]
        /\ inst = MkWord(19, 1, 5, 1, 1, 32) =>
               result = [tag |-> "Srai", rd |-> 1, rs1 |-> 1, imm |-> 1]

(***************************************************************************)
(* C18.  For a word with opcode 115 and funct3 0 the result is decided by  *)
(* an exact match of the whole 12-bit immediate: 0 ECall, 1 EBreak, 0x102  *)
(* SRet, 0x302 MRet, 0x120 SFenceVma, any other immediate fails.  For      *)
(* funct3 1, 2, 3, 5, 6, 7 the result is CsrRw, CsrRs, CsrRc, CsrRwi,      *)
(* CsrRsi, CsrRci for every immediate, and funct3 4 fails.                 *)
(***************************************************************************)
SystemVariant(funct3, imm12) ==
    IF funct3 = 0 THEN
        (IF imm12 = 0 THEN "ECall"
         ELSE IF imm12 = 1 THEN "EBreak"
         ELSE IF imm12 = 258 THEN "SRet"
         ELSE IF imm12 = 770 THEN "MRet"
         ELSE IF imm12 = 288 THEN "SFenceVma"
         ELSE "none")
    ELSE IF funct3 = 1 THEN "CsrRw"
    ELSE IF funct3 = 2 THEN "CsrRs"
    ELSE IF funct3 = 3 THEN "CsrRc"
    ELSE IF funct3 = 5 THEN "CsrRwi"
    ELSE IF funct3 = 6 THEN "CsrRsi"
    ELSE IF funct3 = 7 THEN "CsrRci"
    ELSE "none"

C18_SystemExactMatch ==
    (Done /\ Opcode = 115) =>
        IF SystemVariant(Funct3, Bits(inst, 31, 20)) = "none"
        THEN IsErr(result)
        ELSE /\ IsOk(result)
             /\ result.tag = SystemVariant(Funct3, Bits(inst, 31, 20))

\* mret has been decoded, and the same word with another immediate bit set
\* is refused
C18_Witness ==
    Done /\ Opcode = 115 /\ Funct3 = 0 /\ Bits(inst, 31, 20) = 770
         /\ result.tag = "MRet" /\ IsErr(try_decode(inst + TwoTo(20)))

(***************************************************************************)
(* C19.  For a word with opcode 51 the pair (funct3, funct7) selects the   *)
(* variant exactly: funct7 0 with funct3 0..7 gives Add, Sll, Slt, Sltu,   *)
(* Xor, Srl, Or, And; funct7 32 gives Sub for funct3 0 and Sra for funct3  *)
(* 5; funct7 1 with funct3 0..7 gives Mul, Mulh, Mulsu, Mulu, Div, Divu,   *)
(* Rem, Remu; every other pair fails, and no two catalog entries share a   *)
(* pair.                                                                   *)
(***************************************************************************)
RegisterVariant(funct3, funct7) ==
    IF funct7 = 0
    THEN <<"Add", "Sll", "Slt", "Sltu", "Xor", "Srl", "Or", "And">>[funct3 + 1]
    ELSE IF funct7 = 1
    THEN <<"Mul", "Mulh", "Mulsu", "Mulu", "Div", "Divu", "Rem", "Remu">>[funct3 + 1]
    ELSE IF funct7 = 32 /\ funct3 = 0 THEN "Sub"
    ELSE IF funct7 = 32 /\ funct3 = 5 THEN "Sra"
    ELSE "none"

C20_ErrCarriesWord ==
    (Done /\ IsErr(result)) => result.arg = {inst}


(***************************************************************************)
(* The vocabulary of the properties about the text: the ABI name of a      *)
(* register, the mnemonics of the CSR instructions.                        *)
(***************************************************************************)
Rendered == text # NoText

AbiName(i) == [name |-> REG_NAMES[i + 1]]

CsrShort ==
    [CsrRw |-> "csrw", CsrRs |-> "csrs", CsrRc |-> "csrc",
     CsrRwi |-> "csrwi", CsrRsi |-> "csrsi", CsrRci |-> "csrci"]

CsrLong ==
    [CsrRw |-> "csrrw", CsrRs |-> "csrrs", CsrRc |-> "csrrc",
     CsrRwi |-> "csrrwi", CsrRsi |-> "csrrsi", CsrRci |-> "csrrci"]

(***************************************************************************)
(* C21.  The text of a Csr variant has the short mnemonic (csrw, csrs,     *)
(* csrc, csrwi, csrsi, csrci) and no rd operand exactly when rd = 0 or     *)
(* rd = rs1: its operands are then the csr and rs1.  Otherwise it has the  *)
(* long mnemonic (csrrw, ..) and the operands rd, csr, rs1.                *)
(***************************************************************************)
C21_CsrShorthand ==
    (Rendered /\ result.tag \in CsrVariants) =>
        LET rd  == Bits(inst, 11, 7)
            rs1 == Bits(inst, 19, 15)
        IN  /\ text.tag = "Text"
            /\ IF rd = 0 \/ rd = rs1
               THEN /\ Len(text.args) = 3
                    /\ text.args[1] = [name |-> CsrShort[result.tag]]
                    /\ text.args[3] = AbiName(rs1)
               ELSE /\ Len(text.args) = 4
                    /\ text.args[1] = [name |-> CsrLong[result.tag]]
                    /\ text.args[2] = AbiName(rd)
                    /\ text.args[4] = AbiName(rs1)

\* csrrs a0, 0xFFF, a0 has been written in the short form, rd being rs1
C21_Witness ==
    /\ Rendered
    /\ result.tag = "CsrRs"
    /\ Bits(inst, 11, 7) = 10
    /\ Bits(inst, 19, 15) = 10
    /\ text.args[1] = [name |-> "csrs"]
    /\ Len(text.args) = 3


(***************************************************************************)
(* C22.  The text of the value decoded from 0x0CF4A7AF is                  *)
(* `amoswap.w a5, s1, a5`: the mnemonic, then the ABI names of rd, rs1 and *)
(* rs2 as its only operands.                                               *)
(***************************************************************************)
C22_AmoswapText ==
    (Rendered /\ inst = MkWord(47, 15, 2, 9, 15, 6)) =>
        /\ text.tag = "Text"
        /\ text.args = <<[name |-> "a5"], [name |-> "s1"], [name |-> "a5"]>>

(***************************************************************************)
(* C23.  Writing the text of an Ok result does not fail: each register     *)
(* field of the result (rd, rs1, rs2, rs3), which indexes the 32-entry     *)
(* table of ABI names, is in 0..31, and the text of a CSR variant is       *)
(* written also when its address has no name in the CSR table.             *)
(***************************************************************************)
C23_RenderTotal ==
    /\ (Done /\ IsOk(result)) =>
           \A f \in {"rd", "rs1", "rs2", "rs3"} \cap DOMAIN result : result[f] \in 0 .. 31
    /\ Rendered => text.tag = "Text"

\* a CSR variant with rd = rs1 = 31 and the nameless address 0xFFF has been written
C23_Witness ==
    /\ Rendered
    /\ result.tag \in CsrVariants
    /\ Bits(inst, 11, 7) = 31
    /\ Bits(inst, 31, 20) \notin DOMAIN CSRS
    /\ text.tag = "Text"

\* the value of a hexadecimal digit, upper or lower case; 16 for any other character
HexDigitValue(c) ==
    LET lower == <<"0", "1", "2", "3", "4", "5", "6", "7", "8", "9",
                   "a", "b", "c", "d", "e", "f">>
    IN  IF \E i \in 1 .. 16 : DigitChars[i] = c
        THEN (CHOOSE i \in 1 .. 16 : DigitChars[i] = c) - 1
        ELSE IF \E i \in 1 .. 16 : lower[i] = c
        THEN (CHOOSE i \in 1 .. 16 : lower[i] = c) - 1
        ELSE 16

RECURSIVE HexValue(_)
\* the number a sequence of at most 7 hexadecimal digits denotes
HexValue(cs) ==
    IF cs = <<>> THEN 0
    ELSE 16 * HexValue(SubSeq(cs, 1, Len(cs) - 1)) + HexDigitValue(cs[Len(cs)])

\* cs is a hexadecimal literal of a: hexadecimal digits denoting a, with or
\* without the prefix 0x
IsHexLiteral(cs, a) ==
    LET ds == IF Len(cs) > 2 /\ cs[1] = "0" /\ cs[2] \in {"x", "X"}
              THEN SubSeq(cs, 3, Len(cs)) ELSE cs
    IN  /\ Len(ds) \in 1 .. 7
        /\ \A i \in 1 .. Len(ds) : HexDigitValue(ds[i]) < 16
        /\ HexValue(ds) = a

(***************************************************************************)
(* C24.  In the text of a CSR variant the csr operand is the name of the   *)
(* address when the CSR table has one, and a hexadecimal literal of the    *)
(* address when it has none.                                               *)
(***************************************************************************)
C24_CsrHexFallback ==
    (Rendered /\ result.tag \in CsrVariants) =>
        LET a   == Bits(inst, 31, 20)
            csr == text.args[Len(text.args) - 1]
        IN  IF a \in DOMAIN CSRS
            THEN csr = [name |-> CSRS[a]]
            ELSE /\ DOMAIN csr = {"chars"}
                 /\ IsHexLiteral(csr.chars, a)


(***************************************************************************)
(* C28.  In the single and in the double precision decoder a word of the   *)
(* compare group (funct5 10100) decodes by its funct3: 2 to FEQ, 1 to FLT, *)
(* 0 to FLE, each variant for its own funct3 only, and a word with any     *)
(* other funct3 fails.                                                     *)
(***************************************************************************)
C28_CompareFunct3 ==
    (Done /\ Opcode = 83 /\ Funct5 = 20 /\ Fmt \in {0, 1}) =>
        LET names == IF Fmt = 0 THEN <<"FleS", "FltS", "FeqS">>
                     ELSE <<"FleD", "FltD", "FeqD">>
        IN  IF Funct3 \in 0 .. 2 THEN result.tag = names[Funct3 + 1]
            ELSE IsErr(result)

(***************************************************************************)
(* C29.  A word with opcode 15 decodes to Fence for funct3 0, to FenceI    *)
(* for funct3 1 and fails for every other funct3.  pred is word bits       *)
(* 23:20 and succ is word bits 27:24, both in 0..15; nothing else of the   *)
(* word (bits 31:28, rd, rs1) is in the result.                            *)
(***************************************************************************)
C29_Fence ==
    (Done /\ Opcode = 15) =>
        LET pred == Bits(inst, 23, 20)
            succ == Bits(inst, 27, 24)
        IN  /\ pred \in 0 .. 15
            /\ succ \in 0 .. 15
            /\ IF Funct3 = 0 THEN result = [tag |-> "Fence", pred |-> pred, succ |-> succ]
               ELSE IF Funct3 = 1
                    THEN result = [tag |-> "FenceI", pred |-> pred, succ |-> succ]
               ELSE IsErr(result)

\* a fence with bits 31:28, rd and rs1 set has been decoded to pred 1, succ 10
C29_Witness ==
    /\ Done
    /\ Opcode = 15
    /\ Funct3 = 0
    /\ Bits(inst, 31, 28) = 10
    /\ Bits(inst, 11, 7) = 31
    /\ Bits(inst, 19, 15) = 31
    /\ result = [tag |-> "Fence", pred |-> 1, succ |-> 10]

\* the opcode whose words decode to the variant; 0 for a variant no word decodes to
VariantOpcode(t) ==
    IF t \in {"Lb", "Lh", "Lw", "Lbu", "Lhu"} THEN 3
    ELSE IF t \in {"Flw", "Fld"} THEN 7
    ELSE IF t \in {"Fence", "FenceI"} THEN 15
    ELSE IF t \in {"Addi", "Slli", "Slti", "Sltiu", "Xori", "Srli", "Srai", "Ori", "Andi"}
         THEN 19
    ELSE IF t = "AuiPc" THEN 23
    ELSE IF t \in {"Sb", "Sh", "Sw"} THEN 35
    ELSE IF t \in {"Fsw", "Fsd"} THEN 39
    ELSE IF t = "AmoswapW" THEN 47
    ELSE IF t \in {"Add", "Sub", "Sll", "Slt", "Sltu", "Xor", "Srl", "Sra", "Or", "And",
                   "Mul", "Mulh", "Mulsu", "Mulu", "Div", "Divu", "Rem", "Remu"}
         THEN 51
    ELSE IF t = "Lui" THEN 55
    ELSE IF t = "FmaddD" THEN 67
    ELSE IF t = "FmsubD" THEN 71
    ELSE IF t = "FnmsubD" THEN 75
    ELSE IF t = "FnmaddD" THEN 79
    ELSE IF t \in SingleVariants \cup DoubleVariants THEN 83
    ELSE IF t \in {"Beq", "Bne", "Blt", "Bge", "Bltu", "Bgeu"} THEN 99
    ELSE IF t = "Jalr" THEN 103
    ELSE IF t = "Jal" THEN 111
    ELSE IF t \in CsrVariants \cup {"ECall", "EBreak", "SRet", "MRet", "SFenceVma"} THEN 115
    ELSE 0

(***************************************************************************)
(* C30.  Through try_decode every variant is produced by exactly one       *)
(* opcode: the opcode of a word decoded to a variant is the one opcode of  *)
(* that variant.                                                           *)
(***************************************************************************)
C30_VariantOneOpcode ==
    (Done /\ IsOk(result)) => Opcode = VariantOpcode(result.tag)

\* a float store has been decoded to Fsd, a variant of opcode 39 only
C30_Witness == Done /\ result.tag = "Fsd" /\ Opcode = 39


(***************************************************************************)
(* C25.  In a sequence of try_decode calls the result of a call depends    *)
(* only on its word: it is the result try_decode gives for that word, and  *)
(* it equals the result every earlier call on the same word returned,      *)
(* whatever calls, successful or failed, were made in between.             *)
(***************************************************************************)
C25_SameWordSameResult ==
    /\ Done => result = try_decode(inst)
    /\ Done => \A i \in 1 .. Len(returned) :
                   returned[i][1] = inst => returned[i][2] = result
    /\ \A i, j \in 1 .. Len(returned) :
           returned[i][1] = returned[j][1] => returned[i][2] = returned[j][2]

\* addi decoded again, after an sw and a failed lr.w in between, to the same result
C25_Witness ==
    /\ Done
    /\ Len(returned) = 3
    /\ returned[1][1] = inst
    /\ returned[2][1] = MkWord(35, 30, 2, 2, 1, 0)
    /\ IsOk(returned[2][2])
    /\ returned[3][1] = MkWord(47, 21, 2, 10, 0, 8)
    /\ IsErr(returned[3][2])
    /\ inst = MkWord(19, 12, 0, 13, 4, 3)
    /\ result = returned[1][2]
    /\ result.tag = "Addi"


(***************************************************************************)
(* C26.  With several callers in try_decode at once and their steps        *)
(* interleaved in any order, each call returns the result try_decode gives *)
(* for its word when run alone, and a step of one caller changes nothing   *)
(* of another caller's call.                                               *)
(***************************************************************************)
C26_CallersIsolated ==
    /\ [](\A c \in Callers :
              calls[c].stage = "done" => calls[c].result = try_decode(calls[c].inst))
    /\ [][\A c, d \in Callers :
              (c # d /\ calls'[c].stage # calls[c].stage) =>
                  /\ calls'[d].stage = calls[d].stage
                  /\ calls'[d].fmt = calls[d].fmt
                  /\ calls'[d].result = calls[d].result
                  /\ calls[d].stage # "idle" => calls'[d].inst = calls[d].inst]_vars

\* caller 2 has decoded an addi while caller 1 is between the classification and
\* the decoder of an sw
C26_Witness ==
    /\ calls[1].stage = "classified"
    /\ calls[1].inst = MkWord(35, 30, 2, 2, 1, 0)
    /\ calls[1].fmt = "SType"
    /\ calls[2].stage = "done"
    /\ calls[2].inst = MkWord(19, 12, 0, 13, 4, 3)
    /\ calls[2].result.tag = "Addi"

\* the steps of a call in their order: entry; classification into a format of
\* the table, or the error of a compressed word or of an opcode without format;
\* the decoder of that format, entered once, ending the call with Ok or Err;
\* the return
StageOrder ==
    \/ /\ stage = "idle"
       /\ stage' = "called"
       /\ fmt' = NoFormat /\ entered' = NoDecoder /\ result' = NoResult
    \/ /\ stage = "called"
       /\ stage' = "classified"
       /\ fmt' \in {"RType", "IType", "SType", "UType", "BType", "JType"}
       /\ entered' = NoDecoder /\ result' = NoResult /\ inst' = inst
    \/ /\ stage = "called"
       /\ stage' = "done"
       /\ IsErr(result')
       /\ fmt' = NoFormat /\ entered' = NoDecoder /\ inst' = inst
    \/ /\ stage = "classified"
       /\ stage' = "done"
       /\ result'.tag \in Variants \/ IsErr(result')
       /\ entered' = DecoderOf(fmt) /\ fmt' = fmt /\ inst' = inst
    \/ /\ stage = "done"
       /\ stage' = "done"
       /\ UNCHANGED <<inst, fmt, entered, result>>
    \/ /\ stage = "done"
       /\ stage' = "idle"

(***************************************************************************)
(* C27.  A call goes through format-not-known, format-known and a terminal *)
(* Ok or Err in that order and once each: the decoder of a format is       *)
(* entered only after the classification chose that one format, the call   *)
(* ends with the decoder's first result, no stage is taken again, no other *)
(* format's decoder is entered after a failure, and every call that was    *)
(* entered reaches its terminal stage.                                     *)
(***************************************************************************)
C27_Stages ==
    /\ [][StageOrder]_vars
    /\ (stage = "called") ~> (stage = "done")

\* a call has ended with the error of the decoder it entered after classification
C27_Witness ==
    /\ Done
    /\ fmt = "RType"
    /\ entered = "decode_rtype"
    /\ IsErr(result)
    /\ result.context = "Unknown Atomic instruction"

====
